---- MODULE Spec2Model ----
(***************************************************************************)
(* A model of the PDF-to-Markdown reconstruction engine of pdf_parser.py:  *)
(* the heading tracker, the table extractor, the Markdown assembler, the   *)
(* table of contents and the chunker.                                      *)
(*                                                                         *)
(* A Python str is modelled as a sequence of Unicode code points, so that  *)
(* slicing, strip(), rfind() and split() are computed as the code computes *)
(* them.                                                                   *)
(***************************************************************************)
EXTENDS Integers, Sequences, FiniteSets, TLC

----------------------------------------------------------------------------
(* Code points of the characters the code tests for.                       *)
NL == 10
SP == 32
EXCL == 33
HASH == 35
COMMA == 44
HYPHEN == 45
DOT == 46
QM == 63
PIPE == 124

(* The i-th lowercase letter, letters at neighbouring positions differ.    *)
Letter(i) == 97 + (i % 26)

----------------------------------------------------------------------------
(* Bounds of the model.                                                    *)
MaxTextLen == 4
MaxPages == 2
MaxChunkSize == 3
MaxChunks == 8
MaxRows == 2
MaxCols == 2
MaxHeads == 2
MaxDocPages == 2
MaxParses == 3
MaxItemNumber == 3
MaxLines == 3

----------------------------------------------------------------------------
(* Python built-ins.                                                       *)
Max(a, b) == IF a >= b THEN a ELSE b
Min(a, b) == IF a <= b THEN a ELSE b
SetMax(S) == CHOOSE x \in S : \A y \in S : y <= x
SetMin(S) == CHOOSE x \in S : \A y \in S : x <= y

(* str.isspace() on one character (the whitespace str.strip() removes).    *)
IsSpace(c) == c \in {9, 10, 11, 12, 13, 32}

(* s[a:b] for 0 <= a, 0 <= b.                                              *)
Slice(s, a, b) == SubSeq(s, a + 1, Min(b, Len(s)))

(* s[a:]                                                                   *)
SliceFrom(s, a) == SubSeq(s, a + 1, Len(s))

(* s.strip()                                                               *)
Strip(s) ==
    LET solid == {i \in 1..Len(s) : ~IsSpace(s[i])}
    IN  IF solid = {} THEN <<>> ELSE SubSeq(s, SetMin(solid), SetMax(solid))

(* s.rfind(d): the 0-based position of the rightmost occurrence, or -1.    *)
RFind(s, d) ==
    LET hits == {p \in 0..(Len(s) - Len(d)) : SubSeq(s, p + 1, p + Len(d)) = d}
    IN  IF hits = {} THEN -1 ELSE SetMax(hits)

(* Concatenation of a sequence of strings.                                 *)
RECURSIVE Concat(_)
Concat(ss) == IF ss = <<>> THEN <<>> ELSE Head(ss) \o Concat(Tail(ss))

----------------------------------------------------------------------------
(* The chunker: PDFParser._find_split_point and PDFParser._create_chunks.  *)

SplitLookBack == 200
SplitLookAhead == 100

(* The delimiters of _find_split_point in priority order.                  *)
Delimiters ==
    << <<NL, NL>>, <<DOT, NL>>, <<DOT, SP>>, <<QM, SP>>, <<EXCL, SP>>,
       <<COMMA, SP>>, <<SP>> >>

(* Mutant of find_split_point: the search runs to the end of the text.     *)
find_split_point_to_text_end(text, target) ==
    IF Len(text) <= target THEN Len(text)
    ELSE LET search_start == Max(0, target - SplitLookBack)
             search_end == Len(text)
             search_area == Slice(text, search_start, search_end)
             found == {k \in 1..Len(Delimiters) :
                          RFind(search_area, Delimiters[k]) # -1}
         IN  IF found = {} THEN target
             ELSE LET delimiter == Delimiters[SetMin(found)]
                  IN  search_start + RFind(search_area, delimiter)
                        + Len(delimiter)

(* Mutant of find_split_point: the search starts at the start of the text. *)
find_split_point_from_text_start(text, target) ==
    IF Len(text) <= target THEN Len(text)
    ELSE LET search_start == 0
             search_end == Min(Len(text), target + SplitLookAhead)
             search_area == Slice(text, search_start, search_end)
             found == {k \in 1..Len(Delimiters) :
                          RFind(search_area, Delimiters[k]) # -1}
         IN  IF found = {} THEN target
             ELSE LET delimiter == Delimiters[SetMin(found)]
                  IN  search_start + RFind(search_area, delimiter)
                        + Len(delimiter)

find_split_point(text, target) ==
    IF Len(text) <= target THEN Len(text)
    ELSE LET search_start == Max(0, target - SplitLookBack)
             search_end == Min(Len(text), target + SplitLookAhead)
             search_area == Slice(text, search_start, search_end)
             found == {k \in 1..Len(Delimiters) :
                          RFind(search_area, Delimiters[k]) # -1}
         IN  IF found = {} THEN target
             ELSE LET delimiter == Delimiters[SetMin(found)]
                  IN  search_start + RFind(search_area, delimiter)
                        + Len(delimiter)

----------------------------------------------------------------------------
(* The table renderer: PDFParser._is_empty_table and _table_to_markdown.   *)
(* A table is a sequence of rows, a row a sequence of cells, a cell a      *)
(* string; the cell None is the empty string, as every use of a cell in    *)
(* the code is str(cell or '').                                            *)

MinTableContent == 10

RECURSIVE SumRange(_, _, _)
SumRange(s, lo, hi) ==
    IF lo > hi THEN 0
    ELSE IF lo = hi THEN s[lo]
    ELSE LET mid == (lo + hi) \div 2
         IN  SumRange(s, lo, mid) + SumRange(s, mid + 1, hi)

SumSeq(s) == SumRange(s, 1, Len(s))

(* sep.join(ss)                                                            *)
RECURSIVE Join(_, _)
Join(ss, sep) ==
    IF ss = <<>> THEN <<>>
    ELSE IF Len(ss) = 1 THEN ss[1]
    ELSE ss[1] \o sep \o Join(Tail(ss), sep)

(* s.replace('\n', ' ')                                                    *)
FlattenNewlines(s) == [i \in 1..Len(s) |-> IF s[i] = NL THEN SP ELSE s[i]]

(* sum(len(str(cell or '').strip()) for row in table for cell in row)      *)
total_content(table) ==
    SumSeq([r \in 1..Len(table) |->
              SumSeq([c \in 1..Len(table[r]) |-> Len(Strip(table[r][c]))])])

is_empty_table(table) ==
    IF table = <<>> THEN TRUE ELSE total_content(table) < MinTableContent

RowHasContent(row) == \E c \in 1..Len(row) : Strip(row[c]) # <<>>

non_empty_rows(table) == SelectSeq(table, RowHasContent)

(* '| ' + ' | '.join(cells) + ' |'                                         *)
PipeRow(cells) == <<PIPE, SP>> \o Join(cells, <<SP, PIPE, SP>>) \o <<SP, PIPE>>

(* The header cells of _table_to_markdown: stripped, newlines kept.        *)
header_cells(row) == [c \in 1..Len(row) |-> Strip(row[c])]

(* The cells of one data row: stripped, newlines flattened, padded with    *)
(* empty cells and truncated to the header's width.                        *)
data_cells(row, width) ==
    [c \in 1..width |->
        IF c <= Len(row) THEN FlattenNewlines(Strip(row[c])) ELSE <<>>]

(* Mutant of lacks_data_rows: the header alone is enough.                  *)
lacks_data_rows_off_by_one(rows) == Len(rows) < 1

(* if len(non_empty_rows) < 2: only a header, no data                      *)
lacks_data_rows(rows) == Len(rows) < 2

table_to_markdown(table) ==
    IF table = <<>> THEN <<>>
    ELSE IF total_content(table) < MinTableContent THEN <<>>
    ELSE IF lacks_data_rows(non_empty_rows(table)) THEN <<>>
    ELSE LET rows == non_empty_rows(table)
             header == header_cells(rows[1])
             md_lines ==
                 << PipeRow(header),
                    PipeRow([c \in 1..Len(header) |-> <<HYPHEN, HYPHEN, HYPHEN>>]) >>
                 \o [r \in 1..(Len(rows) - 1) |->
                        PipeRow(data_cells(rows[r + 1], Len(header)))]
         IN  IF \A c \in 1..Len(header) : header[c] = <<>> THEN <<>>
             ELSE Join(md_lines, <<NL>>)

----------------------------------------------------------------------------
(* Character classes, for the Latin and Cyrillic letters.                  *)

IsDigit(c) == c \in 48..57
IsUpperChar(c) == c \in (65..90) \cup (1040..1071) \cup {1025}
IsLowerChar(c) == c \in (97..122) \cup (1072..1103) \cup {1105}
IsAlpha(c) == IsUpperChar(c) \/ IsLowerChar(c)

(* str.isupper(): a cased character, and no lowercase one.                 *)
IsUpperStr(s) ==
    /\ \E i \in 1..Len(s) : IsUpperChar(s[i])
    /\ \A i \in 1..Len(s) : ~IsLowerChar(s[i])

StartsWith(s, prefix) ==
    Len(s) >= Len(prefix) /\ SubSeq(s, 1, Len(prefix)) = prefix

EndsWith(s, c) == Len(s) >= 1 /\ s[Len(s)] = c

(* s.split(sep) for a separator of one character.                          *)
RECURSIVE Split(_, _)
Split(s, sep) ==
    LET at == {i \in 1..Len(s) : s[i] = sep}
    IN  IF at = {} THEN <<s>>
        ELSE <<SubSeq(s, 1, SetMin(at) - 1)>>
               \o Split(SubSeq(s, SetMin(at) + 1, Len(s)), sep)

(* The number of characters c in s: s.count(c)                             *)
Count(s, c) == Cardinality({i \in 1..Len(s) : s[i] = c})

(* sub in s                                                                *)
Contains(s, sub) ==
    \E i \in 1..(Len(s) - Len(sub) + 1) : SubSeq(s, i, i + Len(sub) - 1) = sub

(* s.lower(), for Latin and Cyrillic letters.                              *)
Lower(s) ==
    [i \in 1..Len(s) |->
        IF s[i] \in (65..90) \cup (1040..1071) THEN s[i] + 32
        ELSE IF s[i] = 1025 THEN 1105 ELSE s[i]]

----------------------------------------------------------------------------
(* PDFParser._extract_text_with_fallback and PDFParser._clean_text.        *)

REPLACEMENT == 65533
BREVE == 774

(* The characters of s at the indices in keep, in order.                   *)
RECURSIVE PickRange(_, _, _, _)
PickRange(s, keep, lo, hi) ==
    IF lo > hi THEN <<>>
    ELSE IF lo = hi THEN (IF lo \in keep THEN <<s[lo]>> ELSE <<>>)
    ELSE LET mid == (lo + hi) \div 2
         IN  PickRange(s, keep, lo, mid) \o PickRange(s, keep, mid + 1, hi)

Pick(s, keep) == PickRange(s, keep, 1, Len(s))

(* unicodedata.normalize('NFC', text) on the letters of the model: a       *)
(* Cyrillic i followed by a combining breve composes to a short i.         *)
NFC(s) ==
    LET base(i) == s[i] \in {1048, 1080}
        composed == [i \in 1..Len(s) |->
                       IF base(i) /\ i < Len(s) /\ s[i + 1] = BREVE
                       THEN s[i] + 1 ELSE s[i]]
    IN  Pick(composed,
             {i \in 1..Len(s) : ~(s[i] = BREVE /\ i > 1 /\ base(i - 1))})

(* re.sub(r' +', ' ', text): one space is left of every run of spaces.     *)
CollapseSpaces(s) ==
    Pick(s, {i \in 1..Len(s) : ~(s[i] = SP /\ i < Len(s) /\ s[i + 1] = SP)})

(* re.sub(r'\n{3,}', '\n\n', text): two newlines are left of every run of  *)
(* three or more.                                                          *)
CollapseNewlines(s) ==
    Pick(s, {i \in 1..Len(s) :
               ~(s[i] = NL /\ i > 2 /\ s[i - 1] = NL /\ s[i - 2] = NL)})

(* re.sub(r'-\n', '', text)                                                *)
DropHyphenBreaks(s) ==
    Pick(s, {i \in 1..Len(s) :
               /\ ~(s[i] = HYPHEN /\ i < Len(s) /\ s[i + 1] = NL)
               /\ ~(s[i] = NL /\ i > 1 /\ s[i - 1] = HYPHEN)})

clean_text(text) ==
    Strip(DropHyphenBreaks(CollapseNewlines(CollapseSpaces(text))))

(* alt is what the alternate decoder (PyMuPDF) does for the page: it       *)
(* raises, or it returns a text.  More than a tenth of replacement         *)
(* characters sends the page to it.                                        *)
extract_text_with_fallback(text, alt, pymupdf_available) ==
    LET garbled == text # <<>> /\ 10 * Count(text, REPLACEMENT) > Max(Len(text), 1)
        decoded == IF garbled /\ pymupdf_available /\ ~alt.raises
                     THEN alt.text ELSE text
    IN  clean_text(NFC(decoded))

----------------------------------------------------------------------------
(* PDFParser._assemble_paragraphs                                          *)

should_join(prev, line) ==
    \/ (prev # <<>> /\ IsLowerChar(prev[Len(prev)]))
    \/ EndsWith(prev, COMMA)
    \/ EndsWith(prev, HYPHEN)
    \/ (line # <<>> /\ IsLowerChar(line[1]) /\ IsAlpha(line[1]))

(* The loop over the lines: paragraphs is the list of finished paragraphs, *)
(* current the lines of the paragraph being assembled.                     *)
RECURSIVE AssembleLines(_, _, _)
AssembleLines(lines, paragraphs, current) ==
    IF lines = <<>>
      THEN IF current # <<>> THEN Append(paragraphs, Join(current, <<SP>>))
           ELSE paragraphs
    ELSE LET line == Strip(Head(lines))
             prev == current[Len(current)]
         IN  IF line = <<>>
               THEN IF current # <<>>
                      THEN AssembleLines(Tail(lines),
                               Append(paragraphs, Join(current, <<SP>>)), <<>>)
                      ELSE AssembleLines(Tail(lines), paragraphs, current)
             ELSE IF current # <<>> /\ should_join(prev, line)
               THEN AssembleLines(Tail(lines), paragraphs,
                        Append(IF EndsWith(prev, HYPHEN)
                                 THEN [current EXCEPT ![Len(current)] =
                                          SubSeq(prev, 1, Len(prev) - 1)]
                                 ELSE current,
                               line))
             ELSE AssembleLines(Tail(lines), paragraphs, Append(current, line))

assemble_paragraphs(text) ==
    IF text = <<>> THEN <<>>
    ELSE Join(AssembleLines(Split(text, NL), <<>>, <<>>), <<NL, NL>>)

----------------------------------------------------------------------------
(* Heading detection: _looks_like_header, _detect_headers (patterns),      *)
(* _detect_headers_by_font and _detect_headers_smart.                      *)

Digits == 48..57
Spaces == {9, 10, 11, 12, 13, 32}

(* The position after the longest run of characters of a class that        *)
(* starts at position i (i itself when there is none).                     *)
RunEnd(s, i, class) ==
    LET others == {j \in i..Len(s) : s[j] \notin class}
    IN  IF others = {} THEN Max(i, Len(s) + 1) ELSE SetMin(others)

(* re.match(r'^\d+[\.\)]\s', text)                                         *)
MatchesNumberPrefix(s) ==
    LET d == RunEnd(s, 1, Digits)
    IN  /\ d > 1
        /\ d + 1 <= Len(s)
        /\ s[d] \in {DOT, 41}
        /\ IsSpace(s[d + 1])

(* The classifier without its test of the first character.                 *)
looks_like_header_no_capital_check(text) ==
    IF text = <<>> THEN FALSE
    ELSE IF Len(text) < 100
           THEN \/ MatchesNumberPrefix(text)
                \/ (IsUpperStr(text) /\ Len(text) > 3)
                \/ ~EndsWith(text, DOT)
           ELSE FALSE

(* PDFParser._looks_like_header                                            *)
looks_like_header(text) ==
    IF text = <<>> THEN FALSE
    ELSE IF Len(text) < 100 /\ IsUpperChar(text[1])
           THEN \/ MatchesNumberPrefix(text)
                \/ (IsUpperStr(text) /\ Len(text) > 3)
                \/ ~EndsWith(text, DOT)
           ELSE FALSE

ChapterWords ==
    { <<1043, 1083, 1072, 1074, 1072>>,          \* Glava
      <<67, 104, 97, 112, 116, 101, 114>>,       \* Chapter
      <<1056, 1072, 1079, 1076, 1077, 1083>>,    \* Razdel
      <<83, 101, 99, 116, 105, 111, 110>> }      \* Section

(* [A-ZА-ЯЁ]                                                               *)
IsCapital(c) == c \in (65..90) \cup (1040..1071) \cup {1025}

(* ^(Глава|Chapter|Раздел|Section)\s+\d+                                   *)
MatchesChapter(s) ==
    \E w \in ChapterWords :
        /\ StartsWith(s, w)
        /\ LET sp == RunEnd(s, Len(w) + 1, Spaces)
           IN  sp > Len(w) + 1 /\ sp <= Len(s) /\ IsDigit(s[sp])

(* ^\d+\.\s+[A-ZА-ЯЁ]                                                      *)
MatchesNumbered(s) ==
    LET d == RunEnd(s, 1, Digits)
        sp == RunEnd(s, d + 1, Spaces)
    IN  /\ d > 1 /\ d <= Len(s) /\ s[d] = DOT
        /\ sp > d + 1 /\ sp <= Len(s) /\ IsCapital(s[sp])

(* ^\d+\.\d+\.?\s+[A-ZА-ЯЁ]                                                *)
MatchesSubNumbered(s) ==
    LET d1 == RunEnd(s, 1, Digits)
        d2 == RunEnd(s, d1 + 1, Digits)
        ws == IF d2 <= Len(s) /\ s[d2] = DOT THEN d2 + 1 ELSE d2
        sp == RunEnd(s, ws, Spaces)
    IN  /\ d1 > 1 /\ d1 <= Len(s) /\ s[d1] = DOT
        /\ d2 > d1 + 1
        /\ sp > ws /\ sp <= Len(s) /\ IsCapital(s[sp])

(* ^[A-ZА-ЯЁ][A-ZА-ЯЁ\s]{5,50}$                                            *)
MatchesAllCaps(s) ==
    /\ Len(s) >= 6 /\ Len(s) <= 51
    /\ IsCapital(s[1])
    /\ \A i \in 2..Len(s) : IsCapital(s[i]) \/ IsSpace(s[i])

MatchesHeaderPattern(line) ==
    \/ MatchesChapter(line)
    \/ MatchesNumbered(line)
    \/ MatchesSubNumbered(line)
    \/ MatchesAllCaps(line)

(* _detect_headers: the stripped lines of the text that match a pattern.   *)
detect_headers(text) ==
    LET stripped == [i \in 1..Len(Split(text, NL)) |-> Strip(Split(text, NL)[i])]
    IN  SelectSeq(stripped, LAMBDA l : l # <<>> /\ MatchesHeaderPattern(l))

HeadingCandidate(level, text) == [level |-> level, text |-> text]

(* A visual line of page.chars, as _group_chars_by_line returns it: the    *)
(* text of its characters and the font size of each.                       *)
AllSizes(lines) ==
    SelectSeq(Concat([i \in 1..Len(lines) |-> lines[i].sizes]),
              LAMBDA z : z # 0)

(* max(set(all_sizes), key=all_sizes.count): the most frequent size; among *)
(* equally frequent sizes the one that comes first when the set is         *)
(* iterated, which for up to four small integers is the order of their     *)
(* hash slots, size & 7.                                                   *)
base_size(all_sizes) ==
    LET sizes == {all_sizes[i] : i \in 1..Len(all_sizes)}
        modes == {z \in sizes : \A y \in sizes :
                      Count(all_sizes, y) <= Count(all_sizes, z)}
    IN  CHOOSE z \in modes : \A y \in modes : (z % 8) <= (y % 8)

(* The level a line's average font size gives it, 0 for no heading.  The   *)
(* comparisons avg >= base * 1.5, 1.2, 1.1 are made on integers; the font  *)
(* sizes of the model are integers that do not sit on the 1.2 and 1.1      *)
(* thresholds, where the floating-point product is rounded.                *)
font_level(text, sizes, base) ==
    LET total == SumSeq(sizes)
        n == Len(sizes)
    IN  IF Len(text) < 3 \/ Len(text) > 200 THEN 0
        ELSE IF 10 * total >= 15 * base * n THEN 1
        ELSE IF 10 * total >= 12 * base * n THEN 2
        ELSE IF 10 * total >= 11 * base * n /\ looks_like_header(text) THEN 3
        ELSE 0

detect_headers_by_font(lines) ==
    IF AllSizes(lines) = <<>> THEN <<>>
    ELSE LET base == base_size(AllSizes(lines))
             found == SelectSeq(lines, LAMBDA l :
                         l.sizes # <<>>
                         /\ font_level(Strip(l.text), l.sizes, base) # 0)
         IN  [i \in 1..Len(found) |->
                 HeadingCandidate(font_level(Strip(found[i].text),
                                             found[i].sizes, base),
                                  Strip(found[i].text))]

(* raw_text is page.extract_text() or ''                                   *)
detect_headers_smart(lines, raw_text) ==
    LET font_headers == detect_headers_by_font(lines)
        pattern_headers == detect_headers(raw_text)
    IN  IF font_headers # <<>> THEN font_headers
        ELSE [i \in 1..Len(pattern_headers) |->
                 HeadingCandidate(3, pattern_headers[i])]

----------------------------------------------------------------------------
(* The state.                                                              *)

VARIABLES
    chunk_size,       \* PDFParser.chunk_size
    chunk_overlap,    \* PDFParser.chunk_overlap
    pages_content,    \* the page records: page_number, text, tables, headers
    page_idx,         \* _create_chunks: number of pages taken by the for loop
    current_text,     \* _create_chunks: the rolling buffer
    current_page,     \* _create_chunks: current_page
    current_heading,  \* _create_chunks: current_heading
    chunk_index,      \* _create_chunks: chunk_index
    chunks,           \* _create_chunks: the chunk list
    cpc,              \* _create_chunks: "idle", "pages" (in the loop), "done"
    spans,            \* history: the slice of the page-ordered text each
                      \* split (and the final remainder) took
    strategy_out,     \* what page.extract_tables gives under each strategy
    tpc,              \* position in the table extraction of one page
    attempted,        \* history: the strategies tried, in order
    tables,           \* the list _extract_tables_with_strategies returned
    table_idx,        \* _extract_content: tables taken by "for table in tables"
    page_tables,      \* page_data['tables']
    accepted,         \* history: the table behind each entry of page_tables
    doc_set,          \* the family of documents a parse may be given
    max_parses,       \* how many parses the PDFParser instance is used for
    parse_count,      \* the parses started on the instance so far
    enable_ocr,       \* PDFParser.enable_ocr (enable_ocr and OCR_AVAILABLE)
    pymupdf_available,\* PYMUPDF_AVAILABLE
    last_level,       \* PDFParser._heading_tracker.last_level
    current_section,  \* PDFParser._current_section
    warnings,         \* PDFParser._warnings
    ppc,              \* position of the instance in parse()
    doc,              \* parse: the document behind pdf_path
    is_scanned,       \* parse: metadata.is_scanned
    ocr_idx,          \* _apply_ocr: pages taken by its for loop
    md_parts,         \* _build_markdown: md_parts
    build_idx,        \* _build_markdown: pages taken by its for loop
    full_md,          \* parse: full_md
    toc,              \* parse: toc
    resolved,         \* history: the headings emitted, with their levels
    results,          \* history: what each parse of the instance returned
    analyze_images,   \* PDFParser.analyze_images
    vision_client,    \* what ImageAnalyzer.client does: "built", "none"
                      \* (no provider or no library) or "raises"
    images,           \* parse: images
    one_instance,     \* two parse calls: on one PDFParser, or on one each
    run_doc,          \* per call: the document it parses
    run_pc,           \* per call: its position in parse()
    run_levels,       \* per call: the levels determine_level returned to it
    run_result,       \* per call: what parse() returned
    inst_last_level,  \* per instance: _heading_tracker.last_level
    inst_warnings,    \* per instance: the list self._warnings refers to
    lists,            \* the list objects made so far, by identity
    user_sessions,    \* bot: user_sessions, the session of each user
    last_update,      \* history: the user whose update was handled last
    last_call,        \* history: finalize_output or upload_to_supabase as
                      \* the last handler ran it, and the session it got
    probe_text,       \* the line handed to _looks_like_header
    probe_verdict     \* what _looks_like_header returned for it

chunkVars ==
    << chunk_size, chunk_overlap, pages_content, page_idx, current_text,
       current_page, current_heading, chunk_index, chunks, cpc, spans >>

tableVars ==
    << strategy_out, tpc, attempted, tables, table_idx, page_tables, accepted >>

parseVars ==
    << doc_set, max_parses, parse_count, enable_ocr, pymupdf_available,
       last_level, current_section, warnings, ppc, doc, is_scanned, ocr_idx,
       md_parts, build_idx, full_md, toc, resolved, results >>

imageVars == << analyze_images, vision_client, images >>

probeVars == << probe_text, probe_verdict >>

concVars == << one_instance, run_doc, run_pc, run_levels, run_result,
    inst_last_level, inst_warnings, lists >>

botVars == << user_sessions, last_update, last_call >>

vars ==
    << chunkVars, tableVars, parseVars, imageVars, probeVars, concVars,
       botVars >>

(* No image analysis was asked for.                                        *)
ImageIdle ==
    /\ analyze_images = FALSE
    /\ vision_client = "none"
    /\ images = <<>>

(* No line is being classified on its own: the classifier runs inside a    *)
(* parse or not at all.                                                    *)
ProbeIdle ==
    /\ probe_text = <<>>
    /\ probe_verdict = <<>>

(* The bot is not running.                                                 *)
BotIdle ==
    /\ user_sessions = <<>>
    /\ last_update = 0
    /\ last_call = <<>>

(* No two parse calls are running side by side.                            *)
ConcIdle ==
    /\ one_instance = FALSE
    /\ run_doc = <<>>
    /\ run_pc = <<>>
    /\ run_levels = <<>>
    /\ run_result = <<>>
    /\ inst_last_level = <<>>
    /\ inst_warnings = <<>>
    /\ lists = <<>>

(* metadata.title, the heading of a chunk before any heading is seen.      *)
DocTitle == <<84>>

----------------------------------------------------------------------------
(* PDFParser._create_chunks, one action per pass of its loops.             *)

(* The text a page adds to the buffer: its text, then each table.          *)
RECURSIVE WithTables(_, _)
WithTables(text, mds) ==
    IF mds = <<>> THEN text
    ELSE WithTables(IF Head(mds) # <<>>
                      THEN text \o <<NL, NL>> \o Head(mds) \o <<NL, NL>>
                      ELSE text,
                    Tail(mds))

PageBody(page) == <<NL>> \o WithTables(page.text, page.tables)

(* The page-ordered text of the first n pages, as the buffer receives it.  *)
FullText(n) == Concat([i \in 1..n |-> PageBody(pages_content[i])])

(* Where the buffer starts in the page-ordered text.                       *)
BufStart == Len(FullText(page_idx)) - Len(current_text)

(* Mutants of overlap_start: the overlap added instead of subtracted, and   *)
(* the overlap forgotten.                                                  *)
overlap_start_added(split_point, overlap) == split_point + overlap
overlap_start_forgotten(split_point, overlap) == split_point

(* overlap_start = max(0, split_point - self.chunk_overlap)                *)
overlap_start(split_point, overlap) == Max(0, split_point - overlap)

(* Mutant of next_chunk_index: the index counts every split.               *)
next_chunk_index_every_split(index, chunk_content) == index + 1

(* chunk_index += 1 happens under if chunk_content.                        *)
next_chunk_index(index, chunk_content) ==
    IF chunk_content # <<>> THEN index + 1 ELSE index

(* page_data of _extract_content                                           *)
PageRecord(n, text, mds, hdrs) ==
    [page_number |-> n, text |-> text, tables |-> mds, headers |-> hdrs]

ParsedChunk(content, page_number, index, heading) ==
    [content |-> content, page_number |-> page_number,
     chunk_index |-> index, heading |-> heading]

(* The heading a page sets: the text of its first header, if it has one.   *)
page_heading(page, heading) ==
    IF page.headers # <<>> THEN page.headers[1].text ELSE heading

(* for page in pages_content: ... current_text += f"\n{text}"              *)
ChunkAddPage ==
    /\ cpc = "pages"
    /\ page_idx < Len(pages_content)
    /\ Len(current_text) < chunk_size
    /\ LET page == pages_content[page_idx + 1]
       IN  /\ current_heading' = page_heading(page, current_heading)
           /\ current_text' = current_text \o PageBody(page)
    /\ page_idx' = page_idx + 1
    /\ UNCHANGED parseVars
    /\ UNCHANGED tableVars
    /\ UNCHANGED << chunk_size, chunk_overlap, pages_content, current_page,
                    chunk_index, chunks, cpc, spans >>
    /\ UNCHANGED imageVars
    /\ UNCHANGED probeVars
    /\ UNCHANGED concVars
    /\ UNCHANGED botVars

(* One pass of: while len(current_text) >= self.chunk_size                 *)
ChunkSplit ==
    /\ cpc = "pages"
    /\ page_idx >= 1
    /\ Len(current_text) >= chunk_size
    /\ Len(spans) < MaxChunks
    /\ LET split_point == find_split_point(current_text, chunk_size)
           chunk_content == Strip(Slice(current_text, 0, split_point))
       IN  /\ chunks' =
                 IF chunk_content # <<>>
                 THEN Append(chunks, ParsedChunk(chunk_content, current_page,
                                                 chunk_index, current_heading))
                 ELSE chunks
           /\ chunk_index' = next_chunk_index(chunk_index, chunk_content)
           /\ current_text' =
                 SliceFrom(current_text,
                           overlap_start(split_point, chunk_overlap))
           /\ spans' = Append(spans, [lo |-> BufStart,
                                      hi |-> BufStart + split_point,
                                      emitted |-> chunk_content # <<>>])
    /\ current_page' = pages_content[page_idx].page_number
    /\ UNCHANGED parseVars
    /\ UNCHANGED tableVars
    /\ UNCHANGED << chunk_size, chunk_overlap, pages_content, page_idx,
                    current_heading, cpc >>
    /\ UNCHANGED imageVars
    /\ UNCHANGED probeVars
    /\ UNCHANGED concVars
    /\ UNCHANGED botVars

(* After the last page: the remainder becomes the last chunk.              *)
ChunkFinish ==
    /\ cpc = "pages"
    /\ page_idx = Len(pages_content)
    /\ Len(current_text) < chunk_size
    /\ chunks' =
          IF Strip(current_text) # <<>>
          THEN Append(chunks, ParsedChunk(Strip(current_text), current_page,
                                          chunk_index, current_heading))
          ELSE chunks
    /\ spans' = Append(spans, [lo |-> BufStart,
                               hi |-> BufStart + Len(current_text),
                               emitted |-> Strip(current_text) # <<>>])
    /\ cpc' = "done"
    /\ UNCHANGED parseVars
    /\ UNCHANGED tableVars
    /\ UNCHANGED << chunk_size, chunk_overlap, pages_content, page_idx,
                    current_text, current_page, current_heading, chunk_index >>
    /\ UNCHANGED imageVars
    /\ UNCHANGED probeVars
    /\ UNCHANGED concVars
    /\ UNCHANGED botVars

----------------------------------------------------------------------------
(* PDFParser._extract_tables_with_strategies and the table loop of         *)
(* _extract_content, for one page.  strategy_out[k] is what                *)
(* page.extract_tables does under strategy k (1 ruled lines, 2 strict      *)
(* ruled lines, 3 text-based): it raises, or it returns a list of tables.  *)

Raises == [raises |-> TRUE, tables |-> <<>>]
Returns(ts) == [raises |-> FALSE, tables |-> ts]

NonEmptyTables(ts) == SelectSeq(ts, LAMBDA t : ~is_empty_table(t))

(* Mutant of strategy_succeeds: all() written for any().                   *)
strategy_succeeds_all(ts) ==
    ts # <<>> /\ \A i \in 1..Len(ts) : ~is_empty_table(ts[i])

(* tables and any(not self._is_empty_table(t) for t in tables)             *)
strategy_succeeds(ts) ==
    ts # <<>> /\ \E i \in 1..Len(ts) : ~is_empty_table(ts[i])

TableIdle ==
    /\ strategy_out = <<>>
    /\ tpc = "idle"
    /\ attempted = <<>>
    /\ tables = <<>>
    /\ table_idx = 0
    /\ page_tables = <<>>
    /\ accepted = <<>>

(* Strategy 1 is called outside any try: if it raises, the exception       *)
(* leaves _extract_content.                                                *)
TryRuledLines ==
    /\ tpc = "ruled"
    /\ attempted' = Append(attempted, 1)
    /\ IF strategy_out[1].raises
         THEN tpc' = "raised" /\ UNCHANGED tables
         ELSE IF strategy_succeeds(strategy_out[1].tables)
                THEN /\ tables' = NonEmptyTables(strategy_out[1].tables)
                     /\ tpc' = "render"
                ELSE tpc' = "strict" /\ UNCHANGED tables
    /\ UNCHANGED << strategy_out, table_idx, page_tables, accepted >>
    /\ UNCHANGED parseVars
    /\ UNCHANGED chunkVars
    /\ UNCHANGED imageVars
    /\ UNCHANGED probeVars
    /\ UNCHANGED concVars
    /\ UNCHANGED botVars

(* Strategy 2, in try ... except Exception: pass                           *)
TryStrictLines ==
    /\ tpc = "strict"
    /\ attempted' = Append(attempted, 2)
    /\ IF ~strategy_out[2].raises /\ strategy_succeeds(strategy_out[2].tables)
         THEN /\ tables' = NonEmptyTables(strategy_out[2].tables)
              /\ tpc' = "render"
         ELSE tpc' = "text" /\ UNCHANGED tables
    /\ UNCHANGED << strategy_out, table_idx, page_tables, accepted >>
    /\ UNCHANGED parseVars
    /\ UNCHANGED chunkVars
    /\ UNCHANGED imageVars
    /\ UNCHANGED probeVars
    /\ UNCHANGED concVars
    /\ UNCHANGED botVars

(* Strategy 3, in try ... except Exception: pass; then return []           *)
TryTextBased ==
    /\ tpc = "text"
    /\ attempted' = Append(attempted, 3)
    /\ tables' =
          IF ~strategy_out[3].raises /\ strategy_succeeds(strategy_out[3].tables)
          THEN NonEmptyTables(strategy_out[3].tables)
          ELSE <<>>
    /\ tpc' = "render"
    /\ UNCHANGED << strategy_out, table_idx, page_tables, accepted >>
    /\ UNCHANGED parseVars
    /\ UNCHANGED chunkVars
    /\ UNCHANGED imageVars
    /\ UNCHANGED probeVars
    /\ UNCHANGED concVars
    /\ UNCHANGED botVars

(* for table in tables: md_table = self._table_to_markdown(table) ...      *)
RenderTable ==
    /\ tpc = "render"
    /\ table_idx < Len(tables)
    /\ LET table == tables[table_idx + 1]
           md_table == table_to_markdown(table)
       IN  IF table # <<>> /\ md_table # <<>>
             THEN /\ page_tables' = Append(page_tables, md_table)
                  /\ accepted' = Append(accepted, table)
             ELSE UNCHANGED << page_tables, accepted >>
    /\ table_idx' = table_idx + 1
    /\ UNCHANGED << strategy_out, tpc, attempted, tables >>
    /\ UNCHANGED parseVars
    /\ UNCHANGED chunkVars
    /\ UNCHANGED imageVars
    /\ UNCHANGED probeVars
    /\ UNCHANGED concVars
    /\ UNCHANGED botVars

(* The table loop of the page is over.                                     *)
TablesDone ==
    /\ tpc = "render"
    /\ table_idx = Len(tables)
    /\ tpc' = "done"
    /\ UNCHANGED << strategy_out, attempted, tables, table_idx, page_tables,
                    accepted >>
    /\ UNCHANGED parseVars
    /\ UNCHANGED chunkVars
    /\ UNCHANGED imageVars
    /\ UNCHANGED probeVars
    /\ UNCHANGED concVars
    /\ UNCHANGED botVars

----------------------------------------------------------------------------
(* HeadingTracker, PDFParser._build_markdown and PDFParser._extract_toc.   *)

(* Mutant of tracker_reset: reset() leaves last_level alone.               *)
tracker_reset_forgotten(level) == level

(* HeadingTracker.reset                                                    *)
tracker_reset(level) == 0

(* Mutant of determine_level: the detected level is taken as it is.        *)
determine_level_unchecked(detected_level, last) == detected_level

(* Mutant of determine_level: every heading goes one level deeper.         *)
determine_level_always_deeper(detected_level, last) == last + 1

(* HeadingTracker.determine_level: the level returned, which is also the   *)
(* new last_level.                                                         *)
determine_level(detected_level, last) ==
    IF detected_level > last + 1 THEN last + 1 ELSE detected_level

(* The levels determine_level gives the headers of a page, in order.       *)
RECURSIVE ResolveLevels(_, _)
ResolveLevels(headers, last) ==
    IF headers = <<>> THEN <<>>
    ELSE LET level == determine_level(Head(headers).level, last)
         IN  <<level>> \o ResolveLevels(Tail(headers), level)

(* str(n) for n >= 0                                                       *)
RECURSIVE Str(_)
Str(n) == IF n < 10 THEN <<48 + n>> ELSE Str(n \div 10) \o <<48 + (n % 10)>>

Repeat(s, n) == Concat([i \in 1..n |-> s])

(* s.replace(old, '', 1)                                                   *)
RemoveFirst(s, old) ==
    LET hits == {p \in 0..(Len(s) - Len(old)) : SubSeq(s, p + 1, p + Len(old)) = old}
    IN  IF old = <<>> \/ hits = {} THEN s
        ELSE SubSeq(s, 1, SetMin(hits)) \o SubSeq(s, SetMin(hits) + Len(old) + 1, Len(s))

(* The page text with the text of each header removed once.                *)
RECURSIVE WithoutHeaders(_, _)
WithoutHeaders(text, headers) ==
    IF headers = <<>> THEN text
    ELSE WithoutHeaders(RemoveFirst(text, Head(headers).text), Tail(headers))

(* metadata.author and metadata.file_name                                  *)
DocAuthor == <<85, 110, 107, 110, 111, 119, 110>>
DocFileName == <<102, 46, 112, 100, 102>>

(* The title and the frontmatter block.                                    *)
front_matter(page_count, has_images, scanned) ==
    << <<HASH, SP>> \o DocTitle \o <<NL>>,
       <<HYPHEN, HYPHEN, HYPHEN>>,
       <<97, 117, 116, 104, 111, 114, 58, 32>> \o DocAuthor,
       <<112, 97, 103, 101, 115, 58, 32>> \o Str(page_count),
       <<115, 111, 117, 114, 99, 101, 58, 32>> \o DocFileName >>
    \o (IF has_images
          THEN << <<104, 97, 115, 95, 105, 109, 97, 103, 101, 115, 58, 32,
                    116, 114, 117, 101>> >>
          ELSE <<>>)
    \o (IF scanned
          THEN << <<105, 115, 95, 115, 99, 97, 110, 110, 101, 100, 58, 32,
                    116, 114, 117, 101>> >>
          ELSE <<>>)
    \o << <<HYPHEN, HYPHEN, HYPHEN, NL>> >>

(* f"\n{md_marker} {text}\n" with md_marker = '#' * (level + 1)            *)
heading_part(level, text) ==
    <<NL>> \o Repeat(<<HASH>>, level + 1) \o <<SP>> \o text \o <<NL>>

(* f"\n<!-- page {page_num} -->\n"                                         *)
page_marker(page_num) ==
    <<NL, 60, 33, 45, 45, 32, 112, 97, 103, 101, 32>> \o Str(page_num)
      \o <<32, 45, 45, 62, NL>>

(* Mutant of page_parts: the tables of the page come before its text.      *)
page_parts_tables_before_text(page, last, img_parts) ==
    LET levels == ResolveLevels(page.headers, last)
        clean == Strip(WithoutHeaders(page.text, page.headers))
        shown == SelectSeq(page.tables, LAMBDA t : t # <<>>)
    IN  [i \in 1..Len(levels) |-> heading_part(levels[i], page.headers[i].text)]
        \o [i \in 1..Len(shown) |-> <<NL>> \o shown[i] \o <<NL>>]
        \o (IF page.text # <<>> /\ clean # <<>> THEN <<clean>> ELSE <<>>)
        \o img_parts
        \o << page_marker(page.page_number) >>

(* The parts one page adds to md_parts, given last_level before the page   *)
(* and the parts of its images.                                            *)
page_parts(page, last, img_parts) ==
    LET levels == ResolveLevels(page.headers, last)
        clean == Strip(WithoutHeaders(page.text, page.headers))
        shown == SelectSeq(page.tables, LAMBDA t : t # <<>>)
    IN  [i \in 1..Len(levels) |-> heading_part(levels[i], page.headers[i].text)]
        \o (IF page.text # <<>> /\ clean # <<>> THEN <<clean>> ELSE <<>>)
        \o [i \in 1..Len(shown) |-> <<NL>> \o shown[i] \o <<NL>>]
        \o img_parts
        \o << page_marker(page.page_number) >>

(* line.lstrip('#')                                                        *)
LStripHash(line) == SubSeq(line, RunEnd(line, 1, {HASH}), Len(line))

(* Mutant of toc_entry: the indent is taken from the level, not level - 1. *)
toc_entry_indent_off_by_one(line) ==
    LET level == Len(line) - Len(LStripHash(line))
    IN  Repeat(<<SP, SP>>, level) \o <<HYPHEN, SP>> \o Strip(LStripHash(line))

(* The entry of a Markdown line that starts with '#'.                      *)
toc_entry(line) ==
    LET level == Len(line) - Len(LStripHash(line))
    IN  Repeat(<<SP, SP>>, level - 1) \o <<HYPHEN, SP>> \o Strip(LStripHash(line))

extract_toc(markdown) ==
    LET headings == SelectSeq(Split(markdown, NL),
                              LAMBDA line : StartsWith(line, <<HASH>>))
    IN  [i \in 1..Len(headings) |-> toc_entry(headings[i])]

----------------------------------------------------------------------------
(* PDFParser.parse on one PDFParser instance.  A document is the sequence  *)
(* of its pages as the collaborators present them:                         *)
(*   lines         page.chars grouped into visual lines (text and sizes)   *)
(*   text          the page text outside the table regions                 *)
(*   all_text      page.extract_text()                                     *)
(*   alt           what the alternate decoder does for the page            *)
(*   strategy_out  what each table strategy does for the page              *)
(*   ocr           what the OCR of the page does                           *)

LowTextLimit == 100

Warning(kind, page_num) == [kind |-> kind, page |-> page_num]

(* self._warnings = []                                                     *)
warnings_reset(ws) == <<>>

-----------------------------------------------------------------------------
(* ImageAnalyzer, PDFParser._extract_images and                            *)
(* PDFParser._format_image_description.  A page of a document carries      *)
(* images: what page.get_images() does (it raises, or lists the images),   *)
(* and for each image listed                                               *)
(*   extract   what doc.extract_image does: "ok", "empty" (nothing         *)
(*             usable comes back) or "raises"                              *)
(*   vision    what the vision call does for the image: it raises with a   *)
(*             message, or returns a description                           *)
(* fitz.open raising is get_images raising on the first page.              *)

(* '[Изображение - Vision API недоступен]' *)
VisionUnavailable ==
    <<91, 1048, 1079, 1086, 1073, 1088, 1072, 1078, 1077, 1085, 1080,
       1077, 32, 45, 32, 86, 105, 115, 105, 111, 110, 32, 65, 80, 73,
       32, 1085, 1077, 1076, 1086, 1089, 1090, 1091, 1087, 1077, 1085,
       93>>

(* '[Ошибка анализа изображения: ' *)
AnalysisErrorPrefix ==
    <<91, 1054, 1096, 1080, 1073, 1082, 1072, 32, 1072, 1085, 1072,
       1083, 1080, 1079, 1072, 32, 1080, 1079, 1086, 1073, 1088, 1072,
       1078, 1077, 1085, 1080, 1103, 58, 32>>

(* '\n**Формула:**\n```\n' *)
FormulaOpen ==
    <<10, 42, 42, 1060, 1086, 1088, 1084, 1091, 1083, 1072, 58, 42,
       42, 10, 96, 96, 96, 10>>

(* '\n```\n' *)
FormulaClose ==
    <<10, 96, 96, 96, 10>>

(* '\n> **Схема:** ' *)
DiagramOpen ==
    <<10, 62, 32, 42, 42, 1057, 1093, 1077, 1084, 1072, 58, 42, 42,
       32>>

(* '\n*[Рисунок: ' *)
FigureOpen ==
    <<10, 42, 91, 1056, 1080, 1089, 1091, 1085, 1086, 1082, 58, 32>>

(* ']*\n' *)
FigureClose ==
    <<93, 42, 10>>

(* ['формула', 'уравнение', 'equation', '='] *)
FormulaWords ==
    { <<1092, 1086, 1088, 1084, 1091, 1083, 1072>>,
      <<1091, 1088, 1072, 1074, 1085, 1077, 1085, 1080, 1077>>,
      <<101, 113, 117, 97, 116, 105, 111, 110>>,
      <<61>> }

(* ['схема', 'диаграмма', 'diagram', 'flowchart'] *)
DiagramWords ==
    { <<1089, 1093, 1077, 1084, 1072>>,
      <<1076, 1080, 1072, 1075, 1088, 1072, 1084, 1084, 1072>>,
      <<100, 105, 97, 103, 114, 97, 109>>,
      <<102, 108, 111, 119, 99, 104, 97, 114, 116>> }


(* ImageAnalyzer._classify_image_type                                      *)
classify_image_type(description) ==
    IF \E w \in FormulaWords : Contains(Lower(description), w) THEN "formula"
    ELSE IF \E w \in DiagramWords : Contains(Lower(description), w) THEN "diagram"
    ELSE "illustration"

(* ImageAnalyzer._analyze_openai: the vision call and its handler.         *)
analyze_openai(vision) ==
    IF vision.raises
      THEN [type |-> "error",
            description |-> AnalysisErrorPrefix \o vision.message \o <<93>>]
      ELSE [type |-> classify_image_type(vision.description),
            description |-> vision.description]

(* ImageAnalyzer.analyze, for a client that is there (TRUE) or None.       *)
analyze(vision, has_client) ==
    IF ~has_client
      THEN [type |-> "unknown", description |-> VisionUnavailable]
      ELSE analyze_openai(vision)

(* PDFParser._format_image_description for an extracted image: the         *)
(* Markdown of the image, and whether the handler recorded a warning.      *)
(* Building the client raises inside analyze, which the handler catches.   *)
format_image_description(img, client) ==
    IF client = "raises"
      THEN [md |-> <<>>, warned |-> TRUE]
      ELSE LET analysis == analyze(img.vision, client = "built")
               description == analysis.description
           IN  [md |-> CASE analysis.type = "formula" ->
                              FormulaOpen \o description \o FormulaClose
                         [] analysis.type = "diagram" ->
                              DiagramOpen \o description \o <<NL>>
                         [] OTHER ->
                              FigureOpen \o description \o FigureClose,
                warned |-> FALSE]

(* _extract_images: the pages before the first one whose get_images        *)
(* raises are read.                                                        *)
ListedPages(d) ==
    LET broken == {i \in 1..Len(d) : d[i].images.raises}
    IN  1..((IF broken = {} THEN Len(d) + 1 ELSE SetMin(broken)) - 1)

PageImagesExtracted(d, page_num) ==
    LET list == d[page_num].images.list
        ok == {k \in 1..Len(list) : list[k].extract = "ok"}
    IN  [j \in 1..Cardinality(ok) |->
           LET k == CHOOSE k \in ok : Cardinality({m \in ok : m < k}) = j - 1
           IN  [page |-> page_num, index |-> k - 1, vision |-> list[k].vision]]

PageImageWarnings(d, page_num) ==
    LET list == d[page_num].images.list
        bad == {k \in 1..Len(list) : list[k].extract = "raises"}
    IN  [j \in 1..Cardinality(bad) |-> Warning("image_extract_error", page_num)]

(* PDFParser._extract_images: the images, and the warnings it appends.     *)
extract_images(d) ==
    Concat([p \in ListedPages(d) |-> PageImagesExtracted(d, p)])

extract_images_warnings(d) ==
    Concat([p \in ListedPages(d) |-> PageImageWarnings(d, p)])
    \o (IF \E i \in 1..Len(d) : d[i].images.raises
          THEN << Warning("image_open_error", 0) >> ELSE <<>>)

(* images_by_page[page_num]                                                *)
images_by_page(imgs, page_num) ==
    SelectSeq(imgs, LAMBDA img : img.page = page_num)

(* _build_markdown, "for img in images_by_page[page_num]": the parts the   *)
(* images of a page add to md_parts.  self._image_analyzer is set when and *)
(* only when analyze_images is.                                            *)
image_parts(imgs, page_num, analyzing, client) ==
    IF ~analyzing THEN <<>>
    ELSE LET of_page == images_by_page(imgs, page_num)
             mds == [k \in 1..Len(of_page) |->
                        format_image_description(of_page[k], client).md]
         IN  SelectSeq(mds, LAMBDA md : md # <<>>)

(* The warnings _format_image_description appends for the page.            *)
image_warnings(imgs, page_num, analyzing, client) ==
    IF ~analyzing THEN <<>>
    ELSE LET of_page == images_by_page(imgs, page_num)
             failed == SelectSeq(of_page,
                          LAMBDA img : format_image_description(img, client).warned)
         IN  [k \in 1..Len(failed) |-> Warning("image_error", 0)]

ParseIdle ==
    /\ doc_set = "none"
    /\ max_parses = 0
    /\ parse_count = 0
    /\ enable_ocr = FALSE
    /\ pymupdf_available = FALSE
    /\ last_level = 0
    /\ current_section = <<>>
    /\ warnings = <<>>
    /\ ppc = "idle"
    /\ doc = <<>>
    /\ is_scanned = FALSE
    /\ ocr_idx = 0
    /\ md_parts = <<>>
    /\ build_idx = 0
    /\ full_md = <<>>
    /\ toc = <<>>
    /\ resolved = <<>>
    /\ results = {}

configVars == << doc_set, max_parses, enable_ocr, pymupdf_available,
                 chunk_size, chunk_overlap >>

(* _extract_content: a page is opened and its tables are looked for.       *)
ExtractPageBegin ==
    /\ ppc = "extract"
    /\ tpc = "idle"
    /\ Len(pages_content) < Len(doc)
    /\ strategy_out' = doc[Len(pages_content) + 1].strategy_out
    /\ tpc' = "ruled"
    /\ attempted' = <<>>
    /\ tables' = <<>>
    /\ table_idx' = 0
    /\ page_tables' = <<>>
    /\ accepted' = <<>>
    /\ UNCHANGED chunkVars
    /\ UNCHANGED parseVars
    /\ UNCHANGED imageVars
    /\ UNCHANGED probeVars
    /\ UNCHANGED concVars
    /\ UNCHANGED botVars

(* _extract_content: the page record is completed and appended.            *)
ExtractPageEnd ==
    /\ ppc = "extract"
    /\ tpc = "done"
    /\ LET page_num == Len(pages_content) + 1
           page == doc[page_num]
           text == assemble_paragraphs(
                       extract_text_with_fallback(page.text, page.alt,
                                                  pymupdf_available))
           headers == detect_headers_smart(page.lines, page.all_text)
       IN  pages_content' =
              Append(pages_content,
                     PageRecord(page_num, text, page_tables, headers))
    /\ tpc' = "idle"
    /\ strategy_out' = <<>>
    /\ attempted' = <<>>
    /\ tables' = <<>>
    /\ table_idx' = 0
    /\ page_tables' = <<>>
    /\ accepted' = <<>>
    /\ UNCHANGED << chunk_size, chunk_overlap, page_idx, current_text,
                    current_page, current_heading, chunk_index, chunks, cpc,
                    spans >>
    /\ UNCHANGED parseVars
    /\ UNCHANGED imageVars
    /\ UNCHANGED probeVars
    /\ UNCHANGED concVars
    /\ UNCHANGED botVars

(* The first table strategy raised: the exception leaves parse().          *)
ExtractRaised ==
    /\ ppc = "extract"
    /\ tpc = "raised"
    /\ ppc' = "raised"
    /\ results' = results \cup {[doc |-> doc, raised |-> TRUE]}
    /\ tpc' = "idle"
    /\ strategy_out' = <<>>
    /\ attempted' = <<>>
    /\ tables' = <<>>
    /\ table_idx' = 0
    /\ page_tables' = <<>>
    /\ accepted' = <<>>
    /\ UNCHANGED chunkVars
    /\ UNCHANGED << doc_set, max_parses, parse_count, enable_ocr,
                    pymupdf_available, last_level, current_section, warnings,
                    doc, is_scanned, ocr_idx, md_parts, build_idx, full_md,
                    toc, resolved >>
    /\ UNCHANGED imageVars
    /\ UNCHANGED probeVars
    /\ UNCHANGED concVars
    /\ UNCHANGED botVars

IsLowText(page) == Len(Strip(page.text)) < LowTextLimit

(* _is_scanned_document: more than half of the pages have little text.     *)
is_scanned_document(pages) ==
    2 * Cardinality({i \in 1..Len(pages) : IsLowText(pages[i])}) > Len(pages)

(* parse(): the scan check after all pages are extracted.                  *)
ScanCheck ==
    /\ ppc = "extract"
    /\ tpc = "idle"
    /\ Len(pages_content) = Len(doc)
    /\ IF is_scanned_document(pages_content)
         THEN /\ is_scanned' = TRUE
              /\ IF enable_ocr
                   THEN ppc' = "ocr" /\ UNCHANGED warnings
                   ELSE /\ ppc' = "build"
                        /\ warnings' = Append(warnings, Warning("ocr_disabled", 0))
         ELSE /\ ppc' = "build"
              /\ UNCHANGED << is_scanned, warnings >>
    /\ UNCHANGED chunkVars
    /\ UNCHANGED tableVars
    /\ UNCHANGED << doc_set, max_parses, parse_count, enable_ocr,
                    pymupdf_available, last_level, current_section, doc,
                    ocr_idx, md_parts, build_idx, full_md, toc, resolved,
                    results >>
    /\ UNCHANGED imageVars
    /\ UNCHANGED probeVars
    /\ UNCHANGED concVars
    /\ UNCHANGED botVars

(* page['text'] = self._assemble_paragraphs(ocr_text) and                  *)
(* page['ocr_applied'] = True                                              *)
WithOcrText(page, ocr_text) ==
    [f \in DOMAIN page \cup {"ocr_applied"} |->
        CASE f = "text" -> assemble_paragraphs(ocr_text)
          [] f = "ocr_applied" -> TRUE
          [] OTHER -> page[f]]

(* Mutant of ocr_page_failed: the handler records nothing.                 *)
ocr_page_failed_silently(ws) == ws

(* _ocr_page, except Exception as e: the warning carries the text of the   *)
(* exception and no page number.                                           *)
ocr_page_failed(ws) == Append(ws, Warning("ocr_error", 0))

(* _apply_ocr, one page: _ocr_page catches its own failure, records a      *)
(* warning and returns '', and the page keeps its text.                    *)
OcrPage ==
    /\ ppc = "ocr"
    /\ ocr_idx < Len(pages_content)
    /\ LET page == pages_content[ocr_idx + 1]
           ocr == doc[ocr_idx + 1].ocr
       IN  IF IsLowText(page)
             THEN IF ocr.raises
                    THEN /\ warnings' = ocr_page_failed(warnings)
                         /\ UNCHANGED pages_content
                    ELSE /\ pages_content' =
                               IF ocr.text # <<>>
                               THEN [pages_content EXCEPT ![ocr_idx + 1] =
                                        WithOcrText(page, ocr.text)]
                               ELSE pages_content
                         /\ UNCHANGED warnings
             ELSE UNCHANGED << pages_content, warnings >>
    /\ ocr_idx' = ocr_idx + 1
    /\ UNCHANGED << chunk_size, chunk_overlap, page_idx, current_text,
                    current_page, current_heading, chunk_index, chunks, cpc,
                    spans >>
    /\ UNCHANGED tableVars
    /\ UNCHANGED << doc_set, max_parses, parse_count, enable_ocr,
                    pymupdf_available, last_level, current_section, ppc, doc,
                    is_scanned, md_parts, build_idx, full_md, toc, resolved,
                    results >>
    /\ UNCHANGED imageVars
    /\ UNCHANGED probeVars
    /\ UNCHANGED concVars
    /\ UNCHANGED botVars

OcrDone ==
    /\ ppc = "ocr"
    /\ ocr_idx = Len(pages_content)
    /\ ppc' = "build"
    /\ UNCHANGED chunkVars
    /\ UNCHANGED tableVars
    /\ UNCHANGED << doc_set, max_parses, parse_count, enable_ocr,
                    pymupdf_available, last_level, current_section, warnings,
                    doc, is_scanned, ocr_idx, md_parts, build_idx, full_md,
                    toc, resolved, results >>
    /\ UNCHANGED imageVars
    /\ UNCHANGED probeVars
    /\ UNCHANGED concVars
    /\ UNCHANGED botVars

(* _build_markdown: title, frontmatter and the reset of the tracker.       *)
BuildStart ==
    /\ ppc = "build"
    /\ md_parts' = front_matter(Len(doc), images # <<>>, is_scanned)
    /\ last_level' = tracker_reset(last_level)
    /\ build_idx' = 0
    /\ ppc' = "build_pages"
    /\ UNCHANGED chunkVars
    /\ UNCHANGED tableVars
    /\ UNCHANGED << doc_set, max_parses, parse_count, enable_ocr,
                    pymupdf_available, current_section, warnings, doc,
                    is_scanned, ocr_idx, full_md, toc, resolved, results >>
    /\ UNCHANGED imageVars
    /\ UNCHANGED probeVars
    /\ UNCHANGED concVars
    /\ UNCHANGED botVars

(* _build_markdown: one page of "for page in pages_content".               *)
BuildPage ==
    /\ ppc = "build_pages"
    /\ build_idx < Len(pages_content)
    /\ LET page == pages_content[build_idx + 1]
           levels == ResolveLevels(page.headers, last_level)
           img_parts == image_parts(images, page.page_number, analyze_images,
                                    vision_client)
       IN  /\ md_parts' = md_parts \o page_parts(page, last_level, img_parts)
           /\ warnings' = warnings \o
                 image_warnings(images, page.page_number, analyze_images,
                                vision_client)
           /\ last_level' = IF levels = <<>> THEN last_level
                            ELSE levels[Len(levels)]
           /\ current_section' =
                 IF page.headers = <<>> THEN current_section
                 ELSE page.headers[Len(page.headers)].text
           /\ resolved' = resolved \o
                 [i \in 1..Len(levels) |->
                     [level |-> levels[i],
                      detected |-> page.headers[i].level,
                      text |-> page.headers[i].text,
                      page |-> page.page_number]]
    /\ build_idx' = build_idx + 1
    /\ UNCHANGED chunkVars
    /\ UNCHANGED tableVars
    /\ UNCHANGED << doc_set, max_parses, parse_count, enable_ocr,
                    pymupdf_available, ppc, doc, is_scanned, ocr_idx, full_md,
                    toc, results >>
    /\ UNCHANGED imageVars
    /\ UNCHANGED probeVars
    /\ UNCHANGED concVars
    /\ UNCHANGED botVars

(* '\n'.join(md_parts), then parse(): toc = self._extract_toc(full_md)     *)
BuildFinish ==
    /\ ppc = "build_pages"
    /\ build_idx = Len(pages_content)
    /\ full_md' = Join(md_parts, <<NL>>)
    /\ toc' = extract_toc(Join(md_parts, <<NL>>))
    /\ ppc' = "chunk"
    /\ UNCHANGED chunkVars
    /\ UNCHANGED tableVars
    /\ UNCHANGED << doc_set, max_parses, parse_count, enable_ocr,
                    pymupdf_available, last_level, current_section, warnings,
                    doc, is_scanned, ocr_idx, md_parts, build_idx, resolved,
                    results >>
    /\ UNCHANGED imageVars
    /\ UNCHANGED probeVars
    /\ UNCHANGED concVars
    /\ UNCHANGED botVars

(* parse(): the call of _create_chunks, which sets its local variables.    *)
ChunkStart ==
    /\ ppc = "chunk"
    /\ cpc = "idle"
    /\ page_idx' = 0
    /\ current_text' = <<>>
    /\ current_page' = 1
    /\ current_heading' = DocTitle
    /\ chunk_index' = 0
    /\ chunks' = <<>>
    /\ spans' = <<>>
    /\ cpc' = "pages"
    /\ UNCHANGED << chunk_size, chunk_overlap, pages_content >>
    /\ UNCHANGED tableVars
    /\ UNCHANGED parseVars
    /\ UNCHANGED imageVars
    /\ UNCHANGED probeVars
    /\ UNCHANGED concVars
    /\ UNCHANGED botVars

(* What parse() returns.                                                   *)
ParsedDocument ==
    [full_markdown |-> full_md, chunks |-> chunks,
     table_of_contents |-> toc, warnings |-> warnings,
     is_scanned |-> is_scanned]

ParseReturn ==
    /\ ppc = "chunk"
    /\ cpc = "done"
    /\ results' = results \cup {[doc |-> doc, raised |-> FALSE,
                                 parsed |-> ParsedDocument]}
    /\ ppc' = "returned"
    /\ UNCHANGED chunkVars
    /\ UNCHANGED tableVars
    /\ UNCHANGED << doc_set, max_parses, parse_count, enable_ocr,
                    pymupdf_available, last_level, current_section, warnings,
                    doc, is_scanned, ocr_idx, md_parts, build_idx, full_md,
                    toc, resolved >>
    /\ UNCHANGED imageVars
    /\ UNCHANGED probeVars
    /\ UNCHANGED concVars
    /\ UNCHANGED botVars

----------------------------------------------------------------------------
(* The inputs of the chunker.                                              *)

(* Page texts as _assemble_paragraphs returns them: paragraphs separated   *)
(* by a blank line, no whitespace at either end, no two spaces in a row.   *)
(* A shape is a sequence of L (a letter), D (a period), S (a space) and P  *)
(* (a paragraph break).                                                    *)
Shapes ==
    LET all == UNION {[1..n -> {"L", "D", "S", "P"}] : n \in 0..MaxTextLen}
        gap(t) == t \in {"S", "P"}
    IN  {sh \in all :
            /\ Len(sh) > 0 => ~gap(sh[1]) /\ ~gap(sh[Len(sh)])
            /\ \A i \in 1..(Len(sh) - 1) : ~(gap(sh[i]) /\ gap(sh[i + 1]))}

ShapeText(sh, first) ==
    Concat([i \in 1..Len(sh) |->
              CASE sh[i] = "L" -> <<Letter(first + i)>>
                [] sh[i] = "D" -> <<DOT>>
                [] sh[i] = "S" -> <<SP>>
                [] sh[i] = "P" -> <<NL, NL>>])

(* The sequences of n shapes of at most budget tokens together.            *)
RECURSIVE ShapeSeqs(_, _)
ShapeSeqs(n, budget) ==
    IF n = 0 THEN {<<>>}
    ELSE UNION {{<<sh>> \o rest : rest \in ShapeSeqs(n - 1, budget - Len(sh))} :
                  sh \in {x \in Shapes : Len(x) <= budget}}

(* Documents of up to MaxPages pages of plain text, MaxTextLen tokens in   *)
(* all.                                                                    *)
TextDocs ==
    UNION {{[i \in 1..n |->
               PageRecord(i, ShapeText(shs[i], i * MaxTextLen), <<>>, <<>>)] :
            shs \in ShapeSeqs(n, MaxTextLen)} : n \in 0..MaxPages}

(* chunk_size >= 1 and 0 <= chunk_overlap < chunk_size                     *)
SmallConfigs ==
    {c \in [chunk_size : 1..MaxChunkSize, chunk_overlap : 0..MaxChunkSize] :
        c.chunk_overlap < c.chunk_size}

(* The scenario of 1200 characters without a delimiter, chunk size 500 and *)
(* overlap 50.                                                             *)
ScenarioText == [i \in 1..1200 |-> Letter(i)]
ScenarioConfig == [chunk_size |-> 500, chunk_overlap |-> 50]
ScenarioDoc == << PageRecord(1, ScenarioText, <<>>, <<>>) >>

(* The same text with a space 90 characters after the target of the first *)
(* split and a space 100 characters before the end, its only delimiters.   *)
LookaheadText ==
    [ScenarioText EXCEPT ![ScenarioConfig.chunk_size + 90] = SP,
                         ![Len(ScenarioText) - 100] = SP]
LookaheadDoc == << PageRecord(1, LookaheadText, <<>>, <<>>) >>

ChunkInputs ==
    {<<c, d>> : c \in SmallConfigs, d \in TextDocs}
    \cup {<<ScenarioConfig, ScenarioDoc>>, <<ScenarioConfig, LookaheadDoc>>}

ChunkIdle ==
    /\ chunk_size = 0
    /\ chunk_overlap = 0
    /\ pages_content = <<>>
    /\ page_idx = 0
    /\ current_text = <<>>
    /\ current_page = 1
    /\ current_heading = <<>>
    /\ chunk_index = 0
    /\ chunks = <<>>
    /\ cpc = "idle"
    /\ spans = <<>>

ChunkInit ==
    /\ \E in \in ChunkInputs :
          /\ chunk_size = in[1].chunk_size
          /\ chunk_overlap = in[1].chunk_overlap
          /\ pages_content = in[2]
    /\ page_idx = 0
    /\ current_text = <<>>
    /\ current_page = 1
    /\ current_heading = DocTitle
    /\ chunk_index = 0
    /\ chunks = <<>>
    /\ cpc = "pages"
    /\ spans = <<>>
    /\ TableIdle
    /\ ParseIdle
    /\ ProbeIdle
    /\ ImageIdle
    /\ ConcIdle
    /\ BotIdle

ChunkNext == ChunkAddPage \/ ChunkSplit \/ ChunkFinish

SpecChunk == ChunkInit /\ [][ChunkNext]_vars

----------------------------------------------------------------------------
(* The inputs of the table extractor.                                      *)

Word(first, n) == [i \in 1..n |-> Letter(first + i - 1)]

(* A cell is empty (E, also None), five letters (A) or two lines of two    *)
(* letters (M); the letters depend on the cell's place k in the table.     *)
CellText(kind, k) ==
    CASE kind = "E" -> <<>>
      [] kind = "A" -> Word(5 * k, 5)
      [] kind = "M" -> Word(5 * k, 2) \o <<NL>> \o Word(5 * k + 2, 2)

RowKinds == UNION {[1..n -> {"E", "A", "M"}] : n \in 1..MaxCols}

TableKinds == UNION {[1..n -> RowKinds] : n \in 1..MaxRows}

KindTable(tk) ==
    [r \in 1..Len(tk) |->
        [c \in 1..Len(tk[r]) |-> CellText(tk[r][c], r * MaxCols + c)]]

(* Every table of up to MaxRows rows of up to MaxCols cells.               *)
GenTables == {KindTable(tk) : tk \in TableKinds}

(* Three rows, the last one short, and a cell with blanks around it.       *)
GoodTable ==
    << << Word(0, 5), Word(5, 5) >>,
       << <<SP>> \o Word(10, 3) \o <<SP>>, Word(15, 5), Word(20, 2) >>,
       << Word(22, 1) >> >>

(* Less than MinTableContent characters.                                   *)
SparseTable == << << Word(0, 2), <<>> >> >>

(* A header with much text and a row of blank cells.                       *)
HeaderOnlyTable == << << Word(0, 12), Word(12, 5) >>, << <<>>, <<SP>> >> >>

StrategyOutcomes ==
    { Raises, Returns(<<>>), Returns(<<SparseTable>>), Returns(<<GoodTable>>),
      Returns(<<HeaderOnlyTable>>), Returns(<<SparseTable, GoodTable>>),
      Returns(<<HeaderOnlyTable, GoodTable>>) }

TableInputs ==
    {<< Returns(<<t>>), Returns(<<>>), Returns(<<>>) >> : t \in GenTables}
    \cup [1..3 -> StrategyOutcomes]

TableInit ==
    /\ strategy_out \in TableInputs
    /\ tpc = "ruled"
    /\ attempted = <<>>
    /\ tables = <<>>
    /\ table_idx = 0
    /\ page_tables = <<>>
    /\ accepted = <<>>
    /\ ChunkIdle
    /\ ParseIdle
    /\ ProbeIdle
    /\ ImageIdle
    /\ ConcIdle
    /\ BotIdle

TableNext ==
    TryRuledLines \/ TryStrictLines \/ TryTextBased \/ RenderTable \/ TablesDone

SpecTable == TableInit /\ [][TableNext]_vars

----------------------------------------------------------------------------
(* Properties of the table extractor.                                      *)

(* md.split('\n')                                                          *)
RECURSIVE SplitLines(_)
SplitLines(s) ==
    LET nls == {i \in 1..Len(s) : s[i] = NL}
    IN  IF nls = {} THEN <<s>>
        ELSE <<SubSeq(s, 1, SetMin(nls) - 1)>>
               \o SplitLines(SubSeq(s, SetMin(nls) + 1, Len(s)))

(* The cells of a rendered row "| a | b |": one less than its pipes.       *)
CellCount(line) == Cardinality({i \in 1..Len(line) : line[i] = PIPE}) - 1

IsTableRow(line) ==
    /\ Len(line) >= 2
    /\ line[1] = PIPE
    /\ line[Len(line)] = PIPE

SeparatorRow(width) ==
    PipeRow([c \in 1..width |-> <<HYPHEN, HYPHEN, HYPHEN>>])

(* The rows of a table with a cell that is not blank.                      *)
ContentRows(t) ==
    {r \in 1..Len(t) :
        \E c \in 1..Len(t[r]) : \E p \in 1..Len(t[r][c]) : ~IsSpace(t[r][c][p])}

(* C7: every accepted table is rendered with the header row on the first   *)
(* line, one separator row of one --- per header column on the line after  *)
(* it, and after that only data rows of as many cells as the header.       *)
C7_RenderedTableShape ==
    \A i \in 1..Len(page_tables) :
        LET lines == SplitLines(page_tables[i])
            width == Len(accepted[i][SetMin(ContentRows(accepted[i]))])
        IN  /\ Len(lines) >= 2
            /\ IsTableRow(lines[1]) /\ CellCount(lines[1]) = width
            /\ lines[2] = SeparatorRow(width)
            /\ \A j \in 3..Len(lines) :
                  /\ lines[j] # SeparatorRow(width)
                  /\ IsTableRow(lines[j])
                  /\ CellCount(lines[j]) = width

(* What a table of a header row only would look like in Markdown.          *)
HeaderOnlyMarkdown(t) ==
    LET header == t[SetMin(ContentRows(t))]
    IN  PipeRow([c \in 1..Len(header) |-> Strip(header[c])])
          \o <<NL>> \o SeparatorRow(Len(header))

(* C8: a candidate with fewer than two rows that hold a non-empty cell is  *)
(* never among the page's accepted tables, whichever strategy gave it and  *)
(* however much text its header holds.                                     *)
C8_HeaderOnlyRejected ==
    /\ \A i \in 1..Len(page_tables) :
          /\ Cardinality(ContentRows(accepted[i])) >= 2
          /\ Len(SplitLines(page_tables[i])) >= 3
    /\ \A k \in 1..Len(strategy_out) :
          \A j \in 1..Len(strategy_out[k].tables) :
              LET t == strategy_out[k].tables[j]
              IN  Cardinality(ContentRows(t)) = 1 =>
                      \A i \in 1..Len(page_tables) :
                          /\ accepted[i] # t
                          /\ page_tables[i] # HeaderOnlyMarkdown(t)

(* The winning strategy returned a header-only table with enough text to   *)
(* pass the noise filter, next to a table that was accepted.               *)
C8_Witness ==
    /\ tpc = "done"
    /\ Len(page_tables) >= 1
    /\ \E j \in 1..Len(tables) :
          /\ Cardinality(ContentRows(tables[j])) = 1
          /\ total_content(tables[j]) >= MinTableContent

(* Strategy k returned at least one table that is not empty.               *)
Yields(k) ==
    /\ ~strategy_out[k].raises
    /\ \E j \in 1..Len(strategy_out[k].tables) :
          ~is_empty_table(strategy_out[k].tables[j])

(* C9: the strategies are tried in the order 1, 2, 3; a strategy is tried  *)
(* only if none before it yielded a non-empty table; the search stops at   *)
(* the first strategy that yields one, and the tables returned are the     *)
(* non-empty tables of that one strategy.                                  *)
C9_FirstStrategyWins ==
    /\ attempted = SubSeq(<<1, 2, 3>>, 1, Len(attempted))
    /\ \A n \in 1..Len(attempted) : \A j \in 1..(attempted[n] - 1) : ~Yields(j)
    /\ tpc \in {"render", "done"} =>
          LET last == attempted[Len(attempted)]
          IN  /\ last < 3 => Yields(last)
              /\ tables = IF Yields(last)
                            THEN NonEmptyTables(strategy_out[last].tables)
                            ELSE <<>>

(* The second strategy won although the third would have yielded tables.   *)
C9_Witness ==
    /\ tpc = "done"
    /\ attempted = <<1, 2>>
    /\ Len(tables) >= 1
    /\ Yields(3)

----------------------------------------------------------------------------
(* The inputs of parse().                                                  *)

NoImages == [raises |-> FALSE, list |-> <<>>]

RawPage(lines, text, all_text, alt, outs, ocr) ==
    [lines |-> lines, text |-> text, all_text |-> all_text, alt |-> alt,
     strategy_out |-> outs, ocr |-> ocr, images |-> NoImages]

TextLine(text, size) == [text |-> text, sizes |-> [i \in 1..Len(text) |-> size]]

NoTables == << Returns(<<>>), Returns(<<>>), Returns(<<>>) >>

OcrRaises == [raises |-> TRUE, text |-> <<>>]
OcrReturns(text) == [raises |-> FALSE, text |-> text]

(* A page made of visual lines, without tables: its text is its lines.     *)
LinesPage(lines) ==
    LET text == Join([i \in 1..Len(lines) |-> lines[i].text], <<NL>>)
    IN  RawPage(lines, text, text, Raises, NoTables, OcrRaises)

(* Body text of 104 characters at the base font size 12.                   *)
BodyText ==
    Word(0, 25) \o <<SP>> \o Word(1, 25) \o <<COMMA, SP>> \o Word(2, 25)
      \o <<SP>> \o Word(3, 24) \o <<DOT>>
BodyLine == TextLine(BodyText, 12)

(* Lines in larger fonts: Intro (1.5 x), Scope (1.25 x), Notes (1.17 x).   *)
HeadLine(kind) ==
    CASE kind = "T1" -> TextLine(<<73, 110, 116, 114, 111>>, 18)
      [] kind = "T2" -> TextLine(<<83, 99, 111, 112, 101>>, 15)
      [] kind = "T3" -> TextLine(<<78, 111, 116, 101, 115>>, 14)

HeadKinds == {"T1", "T2", "T3"}

(* The sequences of n pages of heading kinds, budget kinds together.       *)
RECURSIVE HeadSeqs(_, _)
HeadSeqs(n, budget) ==
    IF n = 0 THEN {<<>>}
    ELSE UNION {{<<hs>> \o rest : rest \in HeadSeqs(n - 1, budget - Len(hs))} :
                  hs \in UNION {[1..k -> HeadKinds] : k \in 0..budget}}

(* Documents whose pages are some larger lines followed by body text.      *)
HeadingDocs ==
    UNION {{[i \in 1..n |->
               LinesPage([j \in 1..Len(hss[i]) |-> HeadLine(hss[i][j])]
                         \o <<BodyLine>>)] :
            hss \in HeadSeqs(n, MaxHeads)} : n \in 0..MaxDocPages}

(* "1. Aims" in the base font: a heading by pattern only.                  *)
PatternPage ==
    LinesPage(<< TextLine(<<49, 46, 32, 65, 105, 109, 115>>, 12), BodyLine >>)

(* "#tag" at the start of the body text, and "SUMMARY" in capitals.        *)
HashPage ==
    LinesPage(<< TextLine(<<35, 116, 97, 103>>, 12), BodyLine,
                 TextLine(<<83, 85, 77, 77, 65, 82, 89>>, 12) >>)

(* A line of mixed font sizes and two equally frequent sizes.              *)
MixedPage ==
    LinesPage(<< [text |-> <<66, 105, 103, 32, 111, 110, 101>>,
                  sizes |-> <<26, 26, 26, 12, 12, 12, 12>>],
                 TextLine(<<84, 97, 105, 108>>, 26) >>)

(* Little text, a word broken by a hyphen, no characters with sizes.       *)
ShortPage ==
    RawPage(<<>>,
            <<67, 104, 97, 112, 116, 101, 114, 32, 50, 10,
              105, 110, 116, 101, 114, 45, 10, 110, 97, 116>>,
            <<67, 104, 97, 112, 116, 101, 114, 32, 50, 10,
              105, 110, 116, 101, 114, 45, 10, 110, 97, 116>>,
            Raises, NoTables,
            OcrReturns(<<83, 99, 97, 110, 45, 10, 110, 101, 100, 10, 10,
                         84, 119, 111>>))

(* Garbled text for which the alternate decoder has a clean text; the OCR  *)
(* of the page fails.                                                      *)
GarbledPage ==
    RawPage(<<>>, <<REPLACEMENT, 97, REPLACEMENT, 98>>,
            <<REPLACEMENT, 97, REPLACEMENT, 98>>,
            [raises |-> FALSE, text |-> <<1048, BREVE, 32, 32, 111, 107>>],
            NoTables, OcrRaises)

(* Body text next to a table; the first strategy also finds a header-only  *)
(* table.                                                                  *)
TablePage ==
    RawPage(<<BodyLine>>, BodyText, BodyText \o <<NL>> \o Word(0, 5),
            Raises,
            << Returns(<<HeaderOnlyTable, GoodTable>>), Raises,
               Returns(<<GoodTable>>) >>,
            OcrRaises)

(* A table whose header cell has a second line that begins with '#'.       *)
HashHeaderTable ==
    << << <<78, 97, 109, 101, NL, HASH, 75, 101, 121>>, Word(0, 5) >>,
       << Word(1, 5), Word(2, 5) >> >>

(* The second strategy finds the tables, the first one nothing.            *)
StrictTablePage ==
    RawPage(<<HeadLine("T3"), BodyLine>>,
            HeadLine("T3").text \o <<NL>> \o BodyText,
            HeadLine("T3").text \o <<NL>> \o BodyText,
            Raises,
            << Returns(<<SparseTable>>), Returns(<<GoodTable, HashHeaderTable>>),
               Raises >>,
            OcrRaises)

(* The first strategy raises.                                              *)
BrokenPage == RawPage(<<BodyLine>>, BodyText, BodyText, Raises,
                      << Raises, Returns(<<>>), Returns(<<>>) >>, OcrRaises)

(* A damaged page: replacement characters in its text, an alternate       *)
(* decoder that raises, no table under the first strategy, and the other   *)
(* two strategies raise.                                                   *)
DamagedPage ==
    RawPage(<<>>, <<REPLACEMENT, 79, 107, REPLACEMENT>>,
            <<REPLACEMENT, 79, 107, REPLACEMENT>>, Raises,
            << Returns(<<>>), Raises, Raises >>, OcrRaises)

(* Three lines in larger fonts, the largest first, and body text.          *)
DeepPage ==
    LinesPage(<<HeadLine("T1"), HeadLine("T2"), HeadLine("T3"), BodyLine>>)

(* The heading "Notes" and, after the body text, the line "Notes end."     *)
EchoPage ==
    LinesPage(<< HeadLine("T3"), BodyLine,
                 TextLine(<<78, 111, 116, 101, 115, 32, 101, 110, 100, 46>>, 12) >>)

SpecialPages ==
    { PatternPage, HashPage, MixedPage, ShortPage, GarbledPage, TablePage,
      StrictTablePage, BrokenPage, DamagedPage, DeepPage, EchoPage }

SpecialDocs == UNION {[1..n -> SpecialPages] : n \in 1..2}

(* str(e) of the exception of a vision call: 'timeout' *)
ExceptionText ==
    <<116, 105, 109, 101, 111, 117, 116>>

(* 'E = mc^2' *)
FormulaDescription ==
    <<69, 32, 61, 32, 109, 99, 94, 50>>

(* 'Block diagram\n# Legend' *)
DiagramDescription ==
    <<66, 108, 111, 99, 107, 32, 100, 105, 97, 103, 114, 97, 109, 10,
       35, 32, 76, 101, 103, 101, 110, 100>>

(* 'Pump housing' *)
FigureDescription ==
    <<80, 117, 109, 112, 32, 104, 111, 117, 115, 105, 110, 103>>

VisionRaises == [raises |-> TRUE, message |-> ExceptionText, description |-> <<>>]
VisionReturns(d) == [raises |-> FALSE, message |-> <<>>, description |-> d]

Image(extract, vision) == [extract |-> extract, vision |-> vision]

WithImages(page, list) ==
    [page EXCEPT !.images = [raises |-> FALSE, list |-> list]]

(* Body text with four images: a figure, one whose vision call raises, one *)
(* whose extraction raises and one that extracts to nothing.               *)
PicturePage ==
    WithImages(LinesPage(<<BodyLine>>),
               << Image("ok", VisionReturns(FigureDescription)),
                  Image("ok", VisionRaises),
                  Image("raises", VisionRaises),
                  Image("empty", VisionRaises) >>)

(* A low-text page with a formula and a diagram.                           *)
FormulaPage ==
    WithImages(ShortPage,
               << Image("ok", VisionReturns(FormulaDescription)),
                  Image("ok", VisionReturns(DiagramDescription)) >>)

(* A page with tables whose get_images raises.                             *)
UnlistablePage ==
    [StrictTablePage EXCEPT !.images = [raises |-> TRUE, list |-> <<>>]]

ImagePages ==
    { PicturePage, FormulaPage, UnlistablePage, DamagedPage, BrokenPage }

ImageDocs == UNION {[1..n -> ImagePages] : n \in 1..MaxDocPages}

(* Documents of various lengths for an instance that is used again.       *)
ReuseDocs ==
    { <<>>,
      << DeepPage >>,
      << LinesPage(<<HeadLine("T3"), BodyLine>>), PatternPage >>,
      << ShortPage >>,
      << TablePage, BrokenPage >> }

Documents(family) ==
    CASE family = "headings" -> HeadingDocs
      [] family = "special" -> SpecialDocs
      [] family = "reuse" -> ReuseDocs
      [] family = "images" -> ImageDocs
      [] OTHER -> {}

(* parse(): reset of the per-parse state of the instance.                  *)
ParseStart ==
    /\ ppc \in {"idle", "returned", "raised"}
    /\ parse_count < max_parses
    /\ \E d \in Documents(doc_set) : doc' = d
    /\ parse_count' = parse_count + 1
    /\ last_level' = tracker_reset(last_level)
    /\ current_section' = <<>>
    /\ IF analyze_images /\ pymupdf_available
         THEN /\ images' = extract_images(doc')
              /\ warnings' = warnings_reset(warnings)
                                \o extract_images_warnings(doc')
         ELSE /\ images' = <<>>
              /\ warnings' = warnings_reset(warnings)
    /\ ppc' = "extract"
    /\ pages_content' = <<>>
    /\ is_scanned' = FALSE
    /\ ocr_idx' = 0
    /\ md_parts' = <<>>
    /\ build_idx' = 0
    /\ full_md' = <<>>
    /\ toc' = <<>>
    /\ resolved' = <<>>
    /\ page_idx' = 0
    /\ current_text' = <<>>
    /\ current_page' = 1
    /\ current_heading' = <<>>
    /\ chunk_index' = 0
    /\ chunks' = <<>>
    /\ cpc' = "idle"
    /\ spans' = <<>>
    /\ UNCHANGED << configVars, results, analyze_images, vision_client >>
    /\ UNCHANGED tableVars
    /\ UNCHANGED probeVars
    /\ UNCHANGED concVars
    /\ UNCHANGED botVars

ParseConfig == [chunk_size |-> 210, chunk_overlap |-> 10]

(* The state of a PDFParser instance after construction.                   *)
ParserConstructed ==
    /\ parse_count = 0
    /\ last_level = 0
    /\ current_section = <<>>
    /\ warnings = <<>>
    /\ ppc = "idle"
    /\ doc = <<>>
    /\ is_scanned = FALSE
    /\ ocr_idx = 0
    /\ md_parts = <<>>
    /\ build_idx = 0
    /\ full_md = <<>>
    /\ toc = <<>>
    /\ resolved = <<>>
    /\ results = {}
    /\ chunk_size = ParseConfig.chunk_size
    /\ chunk_overlap = ParseConfig.chunk_overlap
    /\ pages_content = <<>>
    /\ page_idx = 0
    /\ current_text = <<>>
    /\ current_page = 1
    /\ current_heading = <<>>
    /\ chunk_index = 0
    /\ chunks = <<>>
    /\ cpc = "idle"
    /\ spans = <<>>
    /\ images = <<>>
    /\ TableIdle
    /\ ProbeIdle
    /\ ConcIdle
    /\ BotIdle

(* One parse per instance, of any document.                                *)
ParseInit ==
    /\ \/ /\ doc_set = "headings"
          /\ enable_ocr = FALSE
          /\ pymupdf_available = FALSE
       \/ /\ doc_set = "special"
          /\ enable_ocr \in BOOLEAN
          /\ pymupdf_available \in BOOLEAN
    /\ max_parses = 1
    /\ analyze_images = FALSE
    /\ vision_client = "none"
    /\ ParserConstructed

(* One instance used for several parses in a row.                          *)
ReuseInit ==
    /\ doc_set = "reuse"
    /\ enable_ocr \in BOOLEAN
    /\ pymupdf_available = FALSE
    /\ max_parses = MaxParses
    /\ analyze_images = FALSE
    /\ vision_client = "none"
    /\ ParserConstructed

(* One parse per instance, with or without image analysis; with it, the   *)
(* client of the analyzer is built, is None, or cannot be built.           *)
ImageInit ==
    /\ doc_set = "images"
    /\ enable_ocr = TRUE
    /\ pymupdf_available \in BOOLEAN
    /\ max_parses = 1
    /\ \/ analyze_images = FALSE /\ vision_client = "none"
       \/ analyze_images = TRUE /\ vision_client \in {"built", "none", "raises"}
    /\ ParserConstructed

ParseNext ==
    \/ ParseStart
    \/ ExtractPageBegin
    \/ TryRuledLines
    \/ TryStrictLines
    \/ TryTextBased
    \/ RenderTable
    \/ TablesDone
    \/ ExtractPageEnd
    \/ ExtractRaised
    \/ ScanCheck
    \/ OcrPage
    \/ OcrDone
    \/ BuildStart
    \/ BuildPage
    \/ BuildFinish
    \/ ChunkStart
    \/ ChunkAddPage
    \/ ChunkSplit
    \/ ChunkFinish
    \/ ParseReturn

Spec == ParseInit /\ [][ParseNext]_vars

SpecReuse == ReuseInit /\ [][ParseNext]_vars

SpecImages == ImageInit /\ [][ParseNext]_vars

----------------------------------------------------------------------------
(* Properties of the heading levels and of the table of contents.          *)

BuildDone == ppc \in {"chunk", "returned"}

(* C1: in one parse the first resolved heading has level at most 1 and     *)
(* every later one a level at most one more than the heading before it,    *)
(* on the same page or on an earlier one.                                  *)
C1_NoLevelSkip ==
    /\ resolved # <<>> => resolved[1].level <= 1
    /\ \A k \in 1..(Len(resolved) - 1) :
          resolved[k + 1].level <= resolved[k].level + 1

(* A detected level was lowered on a later page than the heading before.   *)
C1_Witness ==
    /\ ppc = "returned"
    /\ \E k \in 2..Len(resolved) :
          /\ resolved[k].detected > resolved[k].level
          /\ resolved[k].level = resolved[k - 1].level + 1
          /\ resolved[k].page > resolved[k - 1].page

(* The entry of a heading at a level: two spaces per level, "- ", text.    *)
HeadingEntry(h) == Repeat(<<SP, SP>>, h.level) \o <<HYPHEN, SP>> \o h.text

(* The entry of the title line, which is the first line of the Markdown.   *)
TitleEntry == <<HYPHEN, SP>> \o DocTitle

(* The entry of a line of text that begins with k >= 1 '#'.                *)
HashLineEntry(line) ==
    LET k == CHOOSE n \in 1..Len(line) :
                /\ \A i \in 1..n : line[i] = HASH
                /\ n = Len(line) \/ line[n + 1] # HASH
    IN  Repeat(<<SP, SP>>, k - 1) \o <<HYPHEN, SP>>
          \o Strip(SubSeq(line, k + 1, Len(line)))

(* The lines of the body text, of the tables and of the image descriptions *)
(* of a page that begin with '#'.                                          *)
HashLines(page) ==
    LET clean == Strip(WithoutHeaders(page.text, page.headers))
        body == IF page.text = <<>> THEN <<>> ELSE Split(clean, NL)
        rows == Concat([i \in 1..Len(page.tables) |-> Split(page.tables[i], NL)])
        shown == image_parts(images, page.page_number, analyze_images,
                             vision_client)
        pics == Concat([i \in 1..Len(shown) |-> Split(shown[i], NL)])
    IN  SelectSeq(body \o rows \o pics, LAMBDA l : l # <<>> /\ l[1] = HASH)

(* The entries the pages from the i-th on contribute, the headings being   *)
(* the resolved ones from the k-th on.                                     *)
RECURSIVE PageEntries(_, _)
PageEntries(i, k) ==
    IF i > Len(pages_content) THEN <<>>
    ELSE LET page == pages_content[i]
             n == Len(page.headers)
             hashes == HashLines(page)
         IN  [j \in 1..n |-> HeadingEntry(resolved[k + j - 1])]
             \o [j \in 1..Len(hashes) |-> HashLineEntry(hashes[j])]
             \o PageEntries(i + 1, k + n)

(* C2 as stated: the table of contents has exactly one entry for each      *)
(* resolved heading, in document order, with the heading's text.           *)
C2_TocOnePerHeading ==
    BuildDone =>
       toc = [k \in 1..Len(resolved) |-> HeadingEntry(resolved[k])]

(* C2 amended: the table of contents starts with the entry of the title    *)
(* line; then come, page by page, one entry for each resolved heading of   *)
(* the page, in order and with the heading's text, and one entry for each  *)
(* line of the page's body text, tables or image descriptions that begins  *)
(* with '#'.                                                               *)
C2_TocTitleHeadingsHashLines ==
    BuildDone => toc = <<TitleEntry>> \o PageEntries(1, 1)

(* A parse with headings on two pages whose entries follow the title's.    *)
C2_Witness ==
    /\ ppc = "returned"
    /\ Len(resolved) >= 2
    /\ resolved[1].page # resolved[Len(resolved)].page
    /\ Len(toc) = Len(resolved) + 1

(* C10: whatever the instance has parsed before, a parse of a document     *)
(* ends as every other parse of that document does: it raises, or returns  *)
(* the same Markdown, chunks, table of contents, warnings and scan flag.   *)
C10_ReuseSameResult ==
    \A a, b \in results : a.doc = b.doc => a = b

(* The third parse returned, for a document parsed before, after a parse   *)
(* of another document that left headings and warnings behind.             *)
C10_Witness ==
    /\ ppc = "returned"
    /\ parse_count = 3
    /\ resolved # <<>>
    /\ Cardinality(results) = 2
    /\ \E r \in results : r.doc # doc /\ ~r.raised /\ r.parsed.warnings # <<>>

----------------------------------------------------------------------------
(* Properties of the text of a page.                                       *)

(* The words of a text that a hyphen at the end of a line breaks in two:   *)
(* the letters before the hyphen and the letters that open the next line.  *)
BrokenWords(src) ==
    { << SubSeq(src, SetMax({0} \cup {j \in 1..(i - 1) : ~IsAlpha(src[j])}) + 1,
                i - 1),
         SubSeq(src, i + 2,
                SetMin({Len(src) + 1}
                       \cup {j \in (i + 2)..Len(src) : ~IsAlpha(src[j])}) - 1) >> :
      i \in {k \in 2..(Len(src) - 2) :
               /\ src[k] = HYPHEN
               /\ src[k + 1] = NL
               /\ IsAlpha(src[k - 1])
               /\ IsAlpha(src[k + 2])} }

OcrApplied(page) == "ocr_applied" \in DOMAIN page

(* The text a page's text was assembled from: the OCR text when OCR        *)
(* replaced it, else the digitally extracted text.                         *)
PageSource(i) ==
    IF OcrApplied(pages_content[i]) THEN doc[i].ocr.text ELSE doc[i].text

(* C11: every word of a page that a hyphen at the end of a line breaks is  *)
(* in the page's text as one word, its two parts next to each other, for   *)
(* digitally extracted text and for text replaced by OCR alike.            *)
C11_BrokenWordRejoined ==
    \A i \in 1..Min(Len(pages_content), Len(doc)) :
       Count(doc[i].text, REPLACEMENT) = 0 =>
          \A w \in BrokenWords(PageSource(i)) :
             Contains(pages_content[i].text, w[1] \o w[2])

----------------------------------------------------------------------------
(* Properties of the chunker.                                              *)

(* C3: chunking is total: every pass of the split loop strictly shortens   *)
(* the rolling buffer, so the loop cannot run forever.                     *)
C3_SplitShortensBuffer ==
    [][ChunkSplit => Len(current_text') < Len(current_text)]_vars

(* The spans that became chunks, in order.                                 *)
EmittedSpans == SelectSeq(spans, LAMBDA sp : sp.emitted)

(* The position in the page-ordered text of the first character of the    *)
(* k-th chunk: the first character of its span that is not whitespace.     *)
ChunkFirstPos(k) ==
    LET sp == EmittedSpans[k]
    IN  SetMin({p \in (sp.lo + 1)..sp.hi : ~IsSpace(FullText(page_idx)[p])})

(* The number of the page on which a position of the page-ordered text     *)
(* lies.                                                                   *)
PageOfPos(pos) ==
    pages_content[SetMin({n \in 1..page_idx : Len(FullText(n)) >= pos})].page_number

(* C13: the page_number of every chunk is the number of the page on which  *)
(* the chunk's first character lies.                                       *)
C13_ChunkPageIsStartPage ==
    Len(EmittedSpans) = Len(chunks) =>
       \A k \in 1..Len(chunks) :
          chunks[k].page_number = PageOfPos(ChunkFirstPos(k))

(* The headers of the first n pages, in document order.                    *)
HeadersUpTo(n) == Concat([i \in 1..n |-> pages_content[i].headers])

(* C12: the heading of every chunk is the text of the last heading among   *)
(* the headings of the pages up to the one the chunk starts on, and the    *)
(* document title when these pages have no heading.                        *)
C12_ChunkHeadingIsLastSeen ==
    (ppc = "chunk" /\ Len(EmittedSpans) = Len(chunks)) =>
       \A k \in 1..Len(chunks) :
          LET seen == HeadersUpTo(PageOfPos(ChunkFirstPos(k)))
          IN  chunks[k].heading =
                 IF seen = <<>> THEN DocTitle ELSE seen[Len(seen)].text

(* C4: chunking is lossless.  The buffer is always the tail of the         *)
(* page-ordered text; the spans taken start at the beginning of the text,  *)
(* follow each other in document order without a gap, each emitted chunk   *)
(* is its span stripped, a span that was not emitted holds whitespace      *)
(* only, and when chunking is done every character that is not whitespace  *)
(* lies in an emitted chunk.                                               *)
C4_ChunkingLossless ==
    LET full == FullText(page_idx)
        n == Len(spans)
    IN  /\ BufStart >= 0
        /\ current_text = SliceFrom(full, BufStart)
        /\ n = 0 => BufStart = 0
        /\ n > 0 => spans[1].lo = 0 /\ (cpc = "pages" => BufStart <= spans[n].hi)
        /\ \A i \in 1..n : spans[i].lo <= spans[i].hi /\ spans[i].hi <= Len(full)
        /\ \A i \in 1..(n - 1) :
              /\ spans[i].lo <= spans[i + 1].lo
              /\ spans[i + 1].lo <= spans[i].hi
        /\ Len(EmittedSpans) = Len(chunks)
        /\ \A k \in 1..Len(chunks) :
              chunks[k].content =
                  Strip(Slice(full, EmittedSpans[k].lo, EmittedSpans[k].hi))
        /\ \A i \in 1..n :
              ~spans[i].emitted =>
                  \A p \in (spans[i].lo + 1)..spans[i].hi : IsSpace(full[p])
        /\ cpc = "done" =>
              /\ n > 0 /\ spans[n].hi = Len(full)
              /\ \A p \in 1..Len(full) :
                    ~IsSpace(full[p]) =>
                        \E i \in 1..n :
                            /\ spans[i].emitted
                            /\ p \in (spans[i].lo + 1)..spans[i].hi

(* Chunking is done, chunks overlap, and whitespace at a boundary was lost. *)
C4_Witness ==
    /\ cpc = "done"
    /\ Len(chunks) >= 2
    /\ \E i \in 1..(Len(spans) - 1) : spans[i + 1].lo < spans[i].hi
    /\ \E p \in 2..Len(FullText(page_idx)) :
          /\ IsSpace(FullText(page_idx)[p])
          /\ \A k \in 1..Len(EmittedSpans) :
                LET sp == EmittedSpans[k]
                    sl == Slice(FullText(page_idx), sp.lo, sp.hi)
                IN  p \in (sp.lo + 1)..sp.hi => Strip(sl) # sl

(* The document is one page of text without whitespace or punctuation.     *)
NoDelimiterDoc ==
    /\ Len(pages_content) = 1
    /\ pages_content[1].tables = <<>>
    /\ \A i \in 1..Len(pages_content[1].text) :
          pages_content[1].text[i] \in {Letter(j) : j \in 0..25}

(* C5: in a text without delimiters every chunk after the first begins     *)
(* with the last chunk_overlap characters of the chunk before it, and the  *)
(* scenario of 1200 characters, chunk size 500 and overlap 50 gives three  *)
(* chunks with chunk_index 0, 1, 2.                                        *)
C5_OverlapWithoutDelimiter ==
    NoDelimiterDoc =>
        /\ \A k \in 2..Len(chunks) :
              LET prev == chunks[k - 1].content
                  this == chunks[k].content
              IN  /\ Len(prev) >= chunk_overlap
                  /\ Len(this) >= chunk_overlap
                  /\ SubSeq(this, 1, chunk_overlap) =
                        SubSeq(prev, Len(prev) - chunk_overlap + 1, Len(prev))
        /\ (cpc = "done" /\ pages_content = ScenarioDoc
               /\ chunk_size = ScenarioConfig.chunk_size
               /\ chunk_overlap = ScenarioConfig.chunk_overlap) =>
              /\ Len(chunks) = 3
              /\ \A k \in 1..3 : chunks[k].chunk_index = k - 1

(* The scenario has run to its end.                                        *)
C5_Witness ==
    /\ cpc = "done"
    /\ NoDelimiterDoc
    /\ pages_content = ScenarioDoc
    /\ chunk_overlap = ScenarioConfig.chunk_overlap
    /\ Len(chunks) = 3

(* C6: the chunk_index values of the chunk list are 0, 1, ..., n-1 in      *)
(* list order, also when a split gave a prefix of whitespace that was not  *)
(* emitted.                                                                *)
C6_ChunkIndexDense ==
    /\ \A k \in 1..Len(chunks) : chunks[k].chunk_index = k - 1
    /\ cpc = "pages" => chunk_index = Len(chunks)

(* A split was skipped as whitespace and chunks were emitted after it.     *)
C6_Witness ==
    /\ cpc = "done"
    /\ Len(chunks) >= 2
    /\ \E i \in 1..(Len(spans) - 1) :
          /\ ~spans[i].emitted
          /\ \E j \in (i + 1)..Len(spans) : spans[j].emitted


-----------------------------------------------------------------------------
(* _looks_like_header on its own: one line is classified.                  *)

(* 'Введение' (test_parser.py, headers) *)
Vvedenie ==
    <<1042, 1074, 1077, 1076, 1077, 1085, 1080, 1077>>

(* 'Основные понятия' (test_parser.py, headers) *)
OsnovnyePonyatiya ==
    <<1054, 1089, 1085, 1086, 1074, 1085, 1099, 1077, 32, 1087, 1086,
       1085, 1103, 1090, 1080, 1103>>

(* 'Глава 1' (test_parser.py, headers) *)
Glava1 ==
    <<1043, 1083, 1072, 1074, 1072, 32, 49>>

(* 'ЗАКЛЮЧЕНИЕ' (test_parser.py, headers) *)
Zaklyuchenie ==
    <<1047, 1040, 1050, 1051, 1070, 1063, 1045, 1053, 1048, 1045>>

(* 'Results' *)
ResultsTitle ==
    <<82, 101, 115, 117, 108, 116, 115>>

(* 'Scope and aims' *)
ScopeAndAims ==
    <<83, 99, 111, 112, 101, 32, 97, 110, 100, 32, 97, 105, 109, 115>>

(* first list item of test_parser.py, without its number *)
MachineLearningItem ==
    <<1052, 1072, 1096, 1080, 1085, 1085, 1086, 1077, 32, 1086, 1073,
       1091, 1095, 1077, 1085, 1080, 1077, 32, 8212, 32, 1101, 1090,
       1086, 32, 1087, 1086, 1076, 1088, 1072, 1079, 1076, 1077, 1083,
       32, 1080, 1089, 1082, 1091, 1089, 1089, 1090, 1074, 1077, 1085,
       1085, 1086, 1075, 1086, 32, 1080, 1085, 1090, 1077, 1083, 1083,
       1077, 1082, 1090, 1072, 46>>

(* second list item of test_parser.py, without its number *)
NeuralNetsItem ==
    <<1053, 1077, 1081, 1088, 1086, 1085, 1085, 1099, 1077, 32, 1089,
       1077, 1090, 1080, 32, 1089, 1086, 1089, 1090, 1086, 1103, 1090,
       32, 1080, 1079, 32, 1084, 1085, 1086, 1078, 1077, 1089, 1090,
       1074, 1072, 32, 1089, 1074, 1103, 1079, 1072, 1085, 1085, 1099,
       1093, 32, 1085, 1077, 1081, 1088, 1086, 1085, 1086, 1074, 46>>

(* third list item of test_parser.py, without its number *)
TrainingItem ==
    <<1054, 1073, 1091, 1095, 1077, 1085, 1080, 1077, 32, 1087, 1088,
       1086, 1080, 1089, 1093, 1086, 1076, 1080, 1090, 32, 1087, 1091,
       1090, 1077, 1084, 32, 1082, 1086, 1088, 1088, 1077, 1082, 1090,
       1080, 1088, 1086, 1074, 1082, 1080, 32, 1074, 1077, 1089, 1086,
       1074, 32, 1089, 1074, 1103, 1079, 1077, 1081, 46>>

(* 'Install the package from the source tree.' *)
InstallItem ==
    <<73, 110, 115, 116, 97, 108, 108, 32, 116, 104, 101, 32, 112, 97,
       99, 107, 97, 103, 101, 32, 102, 114, 111, 109, 32, 116, 104,
       101, 32, 115, 111, 117, 114, 99, 101, 32, 116, 114, 101, 101,
       46>>

HeadingTitles == {Vvedenie, OsnovnyePonyatiya, ResultsTitle, ScopeAndAims}

ListSentences == {MachineLearningItem, NeuralNetsItem, TrainingItem, InstallItem}

(* The number N of a prefix, in decimal digits.                            *)
NumberDigits(n) == IF n < 10 THEN <<48 + n>> ELSE <<48 + (n \div 10), 48 + (n % 10)>>

RPAREN == 41

NumberedLine(n, mark, gap, rest) == NumberDigits(n) \o <<mark>> \o gap \o rest

HeaderProbes ==
    { NumberedLine(n, mark, gap, rest) :
        n \in 1..MaxItemNumber, mark \in {DOT, RPAREN},
        gap \in {<<SP>>, <<SP, SP>>},
        rest \in HeadingTitles \cup ListSentences }
    \cup HeadingTitles \cup ListSentences
    \cup {Glava1, Zaklyuchenie, <<>>}

HeaderInit ==
    /\ probe_text \in HeaderProbes
    /\ probe_verdict = <<>>
    /\ ChunkIdle
    /\ TableIdle
    /\ ParseIdle
    /\ ImageIdle
    /\ ConcIdle
    /\ BotIdle

(* is_header = parser._looks_like_header(item)                             *)
LooksLikeHeader ==
    /\ probe_verdict = <<>>
    /\ probe_verdict' = <<looks_like_header(probe_text)>>
    /\ UNCHANGED probe_text
    /\ UNCHANGED chunkVars
    /\ UNCHANGED tableVars
    /\ UNCHANGED parseVars
    /\ UNCHANGED imageVars
    /\ UNCHANGED concVars
    /\ UNCHANGED botVars

HeaderNext == LooksLikeHeader

SpecHeader == HeaderInit /\ [][HeaderNext]_vars

(* What follows the numeric prefix and the whitespace after it.            *)
AfterPrefix(text) ==
    SubSeq(text, RunEnd(text, RunEnd(text, 1, Digits) + 1, Spaces), Len(text))

HasLower(s) == \E i \in 1..Len(s) : IsLowerChar(s[i])

(* A numeric prefix 'N.' or 'N)', whitespace, and a short capitalised      *)
(* title: no sentence, so no period at the end.                            *)
IsNumberedHeading(text) ==
    /\ MatchesNumberPrefix(text)
    /\ Len(text) < 100
    /\ AfterPrefix(text) # <<>>
    /\ IsUpperChar(AfterPrefix(text)[1])
    /\ ~EndsWith(text, DOT)

(* A numeric prefix 'N.', and a sentence that goes on in lowercase and     *)
(* ends in a period.                                                       *)
IsNumberedListItem(text) ==
    /\ MatchesNumberPrefix(text)
    /\ text[RunEnd(text, 1, Digits)] = DOT
    /\ Len(AfterPrefix(text)) > 1
    /\ HasLower(AfterPrefix(text))
    /\ SP \in {AfterPrefix(text)[i] : i \in 1..Len(AfterPrefix(text))}
    /\ EndsWith(text, DOT)

Classified == probe_verdict # <<>>

(* C14: a short numbered heading ('1. Введение', '2. Основные понятия')    *)
(* is classified as a header.                                              *)
C14_NumberedHeadingIsHeader ==
    (Classified /\ IsNumberedHeading(probe_text)) => probe_verdict[1]

(* C15: a numbered list item, a prefix 'N.' followed by a sentence ending  *)
(* in a period, is never classified as a header although it matches the   *)
(* numeric-prefix pattern.                                                 *)
C15_NumberedListItemIsNoHeader ==
    (Classified /\ IsNumberedListItem(probe_text)) => ~probe_verdict[1]

C15_Witness ==
    /\ Classified
    /\ IsNumberedListItem(probe_text)
    /\ AfterPrefix(probe_text) = MachineLearningItem
    /\ ~probe_verdict[1]

-----------------------------------------------------------------------------
(* Properties of the handling of failures inside a parse.                  *)

(* The strategies tried on the page in hand whose call raised.             *)
RaisedStrategies ==
    {attempted[k] : k \in {j \in 1..Len(attempted) : strategy_out[attempted[j]].raises}}

HasWarning(kind) == \E k \in 1..Len(warnings) : warnings[k].kind = kind

(* C16: when one of the three table strategies raises on a page, the       *)
(* failure is caught in the table extractor, a warning is recorded, and    *)
(* the parse goes on with the remaining strategies and pages.              *)
C16_StrategyFailureCaughtAndWarned ==
    (ppc = "extract" /\ RaisedStrategies # {}) =>
        /\ tpc # "raised"
        /\ HasWarning("table_error")

(* The text of page i as extracted, before any OCR.                        *)
ExtractedText(i) ==
    assemble_paragraphs(
        extract_text_with_fallback(doc[i].text, doc[i].alt, pymupdf_available))

(* The low-text pages the loop of _apply_ocr has taken, and those of them  *)
(* whose OCR call raised.                                                  *)
OcrTaken == {i \in 1..ocr_idx : Len(Strip(ExtractedText(i))) < LowTextLimit}
OcrFailed == {i \in OcrTaken : doc[i].ocr.raises}

OcrWarnings == {k \in 1..Len(warnings) : warnings[k].kind = "ocr_error"}

(* C17: when the OCR call fails on a low-text page of a scanned document,  *)
(* the failure is caught and a warning records it, the page keeps its      *)
(* text, OCR is still tried on every later low-text page, and the parse    *)
(* does not raise.                                                         *)
C17_OcrFailureIsLocal ==
    OcrFailed # {} =>
       /\ ppc # "raised"
       /\ Cardinality(OcrWarnings) = Cardinality(OcrFailed)
       /\ \A i \in OcrFailed :
             /\ pages_content[i].text = ExtractedText(i)
             /\ ~OcrApplied(pages_content[i])
       /\ \A j \in OcrTaken :
             (~doc[j].ocr.raises /\ doc[j].ocr.text # <<>>) =>
                 /\ OcrApplied(pages_content[j])
                 /\ pages_content[j].text = assemble_paragraphs(doc[j].ocr.text)

(* A parse has returned for a document whose first page failed in OCR and  *)
(* whose second page was read by OCR after that.                           *)
C17_Witness ==
    /\ ppc = "returned"
    /\ Len(doc) = 2
    /\ 1 \in OcrFailed
    /\ 2 \in OcrTaken
    /\ OcrApplied(pages_content[2])
    /\ Cardinality(OcrWarnings) = 1

(* text.count('\ufffd') / max(len(text), 1) > 0.1                       *)
IsGarbled(text) ==
    text # <<>> /\ 10 * Count(text, REPLACEMENT) > Max(Len(text), 1)

(* The extracted pages whose text went to the alternate decoder, which     *)
(* raised.                                                                 *)
FallbackFailed ==
    {i \in 1..Len(pages_content) :
        IsGarbled(doc[i].text) /\ pymupdf_available /\ doc[i].alt.raises}

(* C18: when a page's text has many replacement characters and the         *)
(* alternate decoder fails as well, the page keeps its original text and   *)
(* a warning is recorded.                                                  *)
C18_FallbackFailureKeepsTextAndWarns ==
    (ppc = "extract" /\ FallbackFailed # {}) =>
       /\ \A i \in FallbackFailed :
             pages_content[i].text =
                 assemble_paragraphs(clean_text(NFC(doc[i].text)))
       /\ HasWarning("fallback_error")

-----------------------------------------------------------------------------
(* Properties of image analysis.                                           *)

(* How many image blocks a Markdown text holds: a formula, a diagram or a  *)
(* figure.                                                                 *)
ImageBlocks(md) ==
    Cardinality({ <<i, open>> \in (1..Len(md)) \X {FormulaOpen, DiagramOpen, FigureOpen} :
                    /\ i + Len(open) - 1 <= Len(md)
                    /\ SubSeq(md, i, i + Len(open) - 1) = open })

(* The extracted images whose vision call was made and raised.             *)
FailedAnalyses ==
    {k \in 1..Len(images) :
        analyze_images /\ vision_client = "built" /\ images[k].vision.raises}

(* C19: when the vision call for an image raises, a warning is recorded,   *)
(* the Markdown holds no description for that image, and the other images  *)
(* and pages are processed.                                                *)
C19_FailedImageWarnedAndOmitted ==
    (BuildDone /\ FailedAnalyses # {}) =>
       /\ ppc # "raised"
       /\ HasWarning("image_error")
       /\ ImageBlocks(full_md) = Len(images) - Cardinality(FailedAnalyses)
       /\ \A k \in FailedAnalyses : ~Contains(full_md, images[k].vision.message)

(* Image analysis was asked for, and the client of the analyzer is None or *)
(* cannot be built, or PyMuPDF is missing.                                 *)
NoUsableVision ==
    analyze_images /\ (vision_client \in {"none", "raises"} \/ ~pymupdf_available)

ImageWarningKinds ==
    {"image_error", "image_open_error", "image_extract_error",
     "vision_unavailable", "pymupdf_missing"}

(* C20: when image analysis is asked for and no vision provider is usable, *)
(* the parse returns a Markdown without any image description, and a       *)
(* warning is recorded.                                                    *)
C20_NoProviderIsNoOpWithWarning ==
    (ppc = "returned" /\ NoUsableVision) =>
       /\ ImageBlocks(full_md) = 0
       /\ \E k \in 1..Len(warnings) : warnings[k].kind \in ImageWarningKinds

-----------------------------------------------------------------------------
(* Two calls of PDFParser.parse running side by side, in two threads, on   *)
(* one PDFParser or on one each.  Of a parse only the steps that read or   *)
(* write attributes of the instance are kept: the resets at the start, the *)
(* warning of the scan check, the reset before the page loop of            *)
(* _build_markdown, determine_level for each heading, and the return,      *)
(* which hands out the list self._warnings refers to at that moment.       *)
(* Everything else a parse computes (pages_content, md_parts, chunks) is   *)
(* local to the call.  A document is the detected levels of its headings   *)
(* and whether it looks scanned.                                           *)

Runs == {1, 2}

Header(level) == [level |-> level]

ConcDoc(levels, scanned) ==
    [headers |-> [k \in 1..Len(levels) |-> Header(levels[k])], scanned |-> scanned]

ConcDocs ==
    { ConcDoc(<<>>, TRUE), ConcDoc(<<1>>, FALSE), ConcDoc(<<1, 2>>, FALSE),
      ConcDoc(<<1, 2, 3>>, TRUE), ConcDoc(<<2, 3>>, FALSE) }

(* The instance a call runs on.                                            *)
InstanceOf(run) == IF one_instance THEN 1 ELSE run

(* Two instances as __init__ leaves them, each with a warnings list of its *)
(* own, and two calls about to start.                                      *)
ConcInit ==
    /\ one_instance \in BOOLEAN
    /\ run_doc \in {d \in [Runs -> ConcDocs] : d[1] # d[2]}
    /\ run_pc = [r \in Runs |-> "start"]
    /\ run_levels = [r \in Runs |-> <<>>]
    /\ run_result = [r \in Runs |-> <<>>]
    /\ inst_last_level = [i \in Runs |-> 0]
    /\ inst_warnings = [i \in Runs |-> i]
    /\ lists = << <<>>, <<>> >>
    /\ ChunkIdle
    /\ TableIdle
    /\ ParseIdle
    /\ ImageIdle
    /\ ProbeIdle
    /\ BotIdle

(* parse(): self._heading_tracker.reset(); self._warnings = [] makes a new *)
(* list and points the instance at it.                                     *)
ConcReset ==
    \E run \in Runs :
       /\ run_pc[run] = "start"
       /\ inst_last_level' =
             [inst_last_level EXCEPT ![InstanceOf(run)] = tracker_reset(@)]
       /\ lists' = Append(lists, warnings_reset(lists[inst_warnings[InstanceOf(run)]]))
       /\ inst_warnings' = [inst_warnings EXCEPT ![InstanceOf(run)] = Len(lists) + 1]
       /\ run_pc' = [run_pc EXCEPT ![run] = "extract"]
       /\ UNCHANGED << one_instance, run_doc, run_levels, run_result >>
       /\ UNCHANGED << chunkVars, tableVars, parseVars, imageVars, probeVars,
                       botVars >>

(* parse(): the scan check, with OCR off: self._warnings.append(...)       *)
ConcScanCheck ==
    \E run \in Runs :
       /\ run_pc[run] = "extract"
       /\ lists' = IF run_doc[run].scanned
                     THEN [lists EXCEPT ![inst_warnings[InstanceOf(run)]] =
                              Append(@, Warning("ocr_disabled", 0))]
                     ELSE lists
       /\ run_pc' = [run_pc EXCEPT ![run] = "build"]
       /\ UNCHANGED << one_instance, run_doc, run_levels, run_result,
                       inst_last_level, inst_warnings >>
       /\ UNCHANGED << chunkVars, tableVars, parseVars, imageVars, probeVars,
                       botVars >>

(* _build_markdown: self._heading_tracker.reset() before the page loop.    *)
ConcBuildStart ==
    \E run \in Runs :
       /\ run_pc[run] = "build"
       /\ inst_last_level' =
             [inst_last_level EXCEPT ![InstanceOf(run)] = tracker_reset(@)]
       /\ run_pc' = [run_pc EXCEPT ![run] = "headings"]
       /\ UNCHANGED << one_instance, run_doc, run_levels, run_result,
                       inst_warnings, lists >>
       /\ UNCHANGED << chunkVars, tableVars, parseVars, imageVars, probeVars,
                       botVars >>

(* _build_markdown: level = self._heading_tracker.determine_level(...)     *)
ConcHeading ==
    \E run \in Runs :
       /\ run_pc[run] = "headings"
       /\ Len(run_levels[run]) < Len(run_doc[run].headers)
       /\ LET detected == run_doc[run].headers[Len(run_levels[run]) + 1].level
              level == determine_level(detected, inst_last_level[InstanceOf(run)])
          IN  /\ run_levels' = [run_levels EXCEPT ![run] = Append(@, level)]
              /\ inst_last_level' =
                    [inst_last_level EXCEPT ![InstanceOf(run)] = level]
       /\ UNCHANGED << one_instance, run_doc, run_pc, run_result,
                       inst_warnings, lists >>
       /\ UNCHANGED << chunkVars, tableVars, parseVars, imageVars, probeVars,
                       botVars >>

(* parse(): return ParsedDocument(..., warnings=self._warnings)            *)
ConcReturn ==
    \E run \in Runs :
       /\ run_pc[run] = "headings"
       /\ Len(run_levels[run]) = Len(run_doc[run].headers)
       /\ run_result' =
             [run_result EXCEPT ![run] =
                 << [levels |-> run_levels[run],
                     warnings |-> inst_warnings[InstanceOf(run)]] >>]
       /\ run_pc' = [run_pc EXCEPT ![run] = "done"]
       /\ UNCHANGED << one_instance, run_doc, run_levels, inst_last_level,
                       inst_warnings, lists >>
       /\ UNCHANGED << chunkVars, tableVars, parseVars, imageVars, probeVars,
                       botVars >>

ConcNext ==
    ConcReset \/ ConcScanCheck \/ ConcBuildStart \/ ConcHeading \/ ConcReturn

SpecConcurrent == ConcInit /\ [][ConcNext]_vars

(* What a parse of the document gives when nothing else runs.              *)
AloneLevels(d) == ResolveLevels(d.headers, 0)

AloneWarnings(d) ==
    IF d.scanned THEN << Warning("ocr_disabled", 0) >> ELSE <<>>

(* C21: two parse calls running side by side, on two instances or on one,  *)
(* do not interfere: the heading levels and the warnings each call returns *)
(* are those of a parse of its document alone.                             *)
C21_ConcurrentParsesDoNotInterfere ==
    \A run \in Runs :
       run_result[run] # <<>> =>
          /\ run_result[run][1].levels = AloneLevels(run_doc[run])
          /\ lists[run_result[run][1].warnings] = AloneWarnings(run_doc[run])

-----------------------------------------------------------------------------
(* Properties of the heading tracker inside a parse.                       *)

(* last_level when the k-th heading of the parse was resolved.             *)
LevelBefore(k) == IF k = 1 THEN 0 ELSE resolved[k - 1].level

(* C22: each heading, in document order, gets the level                    *)
(* min(detected_level, last_level + 1), so never one above the detected    *)
(* level and the detected level itself when that is at most                *)
(* last_level + 1; afterwards last_level is the level returned.            *)
C22_EffectiveLevelIsMin ==
    /\ \A k \in 1..Len(resolved) :
          /\ resolved[k].level = Min(resolved[k].detected, LevelBefore(k) + 1)
          /\ resolved[k].level <= resolved[k].detected
          /\ resolved[k].detected <= LevelBefore(k) + 1 =>
                resolved[k].level = resolved[k].detected
    /\ resolved # <<>> => last_level = resolved[Len(resolved)].level

(* A parse returned with a heading that kept its detected level followed   *)
(* by a heading that was lowered to one level below it.                    *)
C22_Witness ==
    /\ ppc = "returned"
    /\ \E k \in 2..Len(resolved) :
          /\ resolved[k - 1].detected = resolved[k - 1].level
          /\ resolved[k].detected > resolved[k].level
          /\ resolved[k].level = resolved[k - 1].level + 1


(* The headers detected on the pages built so far, in document order.      *)
BuiltHeaders == Concat([i \in 1..build_idx |-> pages_content[i].headers])

(* C23: on an instance that has parsed other documents before, last_level  *)
(* is 0 when the first heading of a parse is resolved and is carried from  *)
(* each heading to the next, also across pages, so the levels of a         *)
(* document are those of a tracker that starts at 0 for this document.     *)
C23_TrackerStartsAtZeroEachParse ==
    ppc = "build_pages" =>
        /\ resolved = <<>> => last_level = 0
        /\ resolved # <<>> => last_level = resolved[Len(resolved)].level
        /\ [k \in 1..Len(resolved) |-> resolved[k].level] =
              ResolveLevels(BuiltHeaders, 0)

(* The second page of a later parse is about to be built: the first page   *)
(* left a heading whose level was lowered to 1, and an earlier parse of    *)
(* another document ended with headings in its table of contents.          *)
C23_Witness ==
    /\ ppc = "build_pages"
    /\ parse_count >= 2
    /\ build_idx = 1
    /\ build_idx < Len(pages_content)
    /\ resolved # <<>>
    /\ resolved[1].level = 1
    /\ resolved[1].detected > 1
    /\ \E r \in results :
          r.doc # doc /\ ~r.raised /\ Len(r.parsed.table_of_contents) > 2


----------------------------------------------------------------------------
(* Properties of the order of the parts of the Markdown.                   *)

(* What a part of md_parts is, read off its first characters: the body     *)
(* text is stripped, every other part of a page opens with a newline.      *)
PartKind(part) ==
    CASE \E n \in 1..MaxDocPages : part = page_marker(n) -> "marker"
      [] StartsWith(part, <<NL, HASH>>) -> "heading"
      [] StartsWith(part, <<NL, PIPE>>) -> "table"
      [] StartsWith(part, <<NL>>) -> "image"
      [] OTHER -> "text"

KindRank(kind) ==
    CASE kind = "heading" -> 1
      [] kind = "text" -> 2
      [] kind = "table" -> 3
      [] kind = "image" -> 4
      [] kind = "marker" -> 5

(* The positions in md_parts of the closing "---" of the frontmatter and   *)
(* of the page markers.                                                    *)
FrontEnd == SetMin({p \in 1..Len(md_parts) : md_parts[p] = <<HYPHEN, HYPHEN, HYPHEN, NL>>})

MarkerPositions == {p \in 1..Len(md_parts) : PartKind(md_parts[p]) = "marker"}

(* The position of the marker that closes the i-th page built.             *)
MarkerOf(i) ==
    CHOOSE p \in MarkerPositions : Cardinality({q \in MarkerPositions : q < p}) = i - 1

(* The parts of the i-th page built, its marker left out.                  *)
Segment(i) ==
    SubSeq(md_parts, (IF i = 1 THEN FrontEnd ELSE MarkerOf(i - 1)) + 1,
           MarkerOf(i) - 1)

OfKind(parts, kind) == SelectSeq(parts, LAMBDA part : PartKind(part) = kind)

(* The headings resolved on a page.                                        *)
ResolvedOn(page_num) == SelectSeq(resolved, LAMBDA r : r.page = page_num)

(* C24: the Markdown opens with the H1 title and the frontmatter block;    *)
(* then there is one marker per page, in increasing page order, and the    *)
(* parts before the marker of page N and after the one of page N - 1 are   *)
(* the headings of page N at depth level + 1, then its text, then its      *)
(* tables (then its images), so nothing of page N follows its marker.      *)
C24_PartsInPageOrder ==
    ppc \in {"build_pages", "chunk", "returned"} =>
        /\ md_parts[1] = <<HASH, SP>> \o DocTitle \o <<NL>>
        /\ md_parts[2] = <<HYPHEN, HYPHEN, HYPHEN>>
        /\ \A p \in 1..FrontEnd : PartKind(md_parts[p]) = "text"
        /\ Cardinality(MarkerPositions) = build_idx
        /\ build_idx = 0 => Len(md_parts) = FrontEnd
        /\ build_idx > 0 => MarkerOf(build_idx) = Len(md_parts)
        /\ \A i \in 1..build_idx :
              LET page == pages_content[i]
                  seg == Segment(i)
              IN  /\ md_parts[MarkerOf(i)] = page_marker(i)
                  /\ page.page_number = i
                  /\ \A p, q \in 1..Len(seg) :
                        p < q => KindRank(PartKind(seg[p])) <= KindRank(PartKind(seg[q]))
                  /\ OfKind(seg, "heading") =
                        [k \in 1..Len(ResolvedOn(i)) |->
                            heading_part(ResolvedOn(i)[k].level, ResolvedOn(i)[k].text)]
                  /\ OfKind(seg, "text") \in
                        {<<>>, <<Strip(WithoutHeaders(page.text, page.headers))>>}
                  /\ OfKind(seg, "table") =
                        [k \in 1..Len(page.tables) |-> <<NL>> \o page.tables[k] \o <<NL>>]

(* A parse returned whose second page has a heading, text and a table      *)
(* between the two markers.                                                *)
C24_Witness ==
    /\ ppc = "returned"
    /\ build_idx = 2
    /\ OfKind(Segment(1), "heading") # <<>>
    /\ OfKind(Segment(2), "heading") # <<>>
    /\ OfKind(Segment(2), "text") # <<>>
    /\ OfKind(Segment(2), "table") # <<>>


(* C25: the body text a page adds to the Markdown contains the text of     *)
(* none of the headings of that page.                                      *)
C25_NoHeadingTextInBody ==
    ppc \in {"build_pages", "chunk", "returned"} =>
        \A i \in 1..build_idx :
            \A k \in 1..Len(OfKind(Segment(i), "text")) :
                \A h \in 1..Len(pages_content[i].headers) :
                    ~Contains(OfKind(Segment(i), "text")[k],
                              pages_content[i].headers[h].text)


----------------------------------------------------------------------------
(* The paragraph assembler on its own: _assemble_paragraphs applied to a   *)
(* text of a few short lines.                                              *)

(* "ab", "Ab", "ab,", "ab-", "Ab.", an empty line, a line of one space.    *)
ProbeLines ==
    { <<97, 98>>, <<65, 98>>, <<97, 98, COMMA>>, <<97, 98, HYPHEN>>,
      <<65, 98, DOT>>, <<>>, <<SP>> }

AssembleProbes ==
    { Join(ls, <<NL>>) : ls \in UNION {[1..n -> ProbeLines] : n \in 1..MaxLines} }

AssembleInit ==
    /\ probe_text \in AssembleProbes
    /\ probe_verdict = <<>>
    /\ ChunkIdle
    /\ TableIdle
    /\ ParseIdle
    /\ ImageIdle
    /\ ConcIdle
    /\ BotIdle

(* text = self._assemble_paragraphs(text)                                  *)
AssembleParagraphs ==
    /\ probe_verdict = <<>>
    /\ probe_verdict' = <<assemble_paragraphs(probe_text)>>
    /\ UNCHANGED probe_text
    /\ UNCHANGED chunkVars
    /\ UNCHANGED tableVars
    /\ UNCHANGED parseVars
    /\ UNCHANGED imageVars
    /\ UNCHANGED concVars
    /\ UNCHANGED botVars

AssembleNext == AssembleParagraphs

SpecAssemble == AssembleInit /\ [][AssembleNext]_vars

(* The lines of the input, stripped; a blank line is an empty one.         *)
InputLines == [i \in 1..Len(Split(probe_text, NL)) |-> Strip(Split(probe_text, NL)[i])]

(* The rule for joining a line to the line before it.                      *)
JoinRule(prev, line) ==
    \/ IsLowerChar(prev[Len(prev)])
    \/ prev[Len(prev)] \in {COMMA, HYPHEN}
    \/ IsLowerChar(line[1])

(* The non-blank lines that open a paragraph: the first one, one after a   *)
(* blank line, and one the rule does not join to the line before it.       *)
ParagraphOpeners ==
    { i \in 1..Len(InputLines) :
        /\ InputLines[i] # <<>>
        /\ \/ i = 1
           \/ InputLines[i - 1] = <<>>
           \/ ~JoinRule(InputLines[i - 1], InputLines[i]) }

(* The number of paragraphs of the output, which separates them by a       *)
(* blank line.                                                             *)
ParagraphCount(out) ==
    IF out = <<>> THEN 0
    ELSE 1 + Cardinality({i \in 1..(Len(out) - 1) : SubSeq(out, i, i + 1) = <<NL, NL>>})

(* C26: a non-blank line after a non-blank line is in the paragraph of     *)
(* that line exactly when the line before ends in a lowercase letter, a    *)
(* comma or a hyphen or the line begins with a lowercase letter; every     *)
(* other non-blank line opens a paragraph, and a blank line closes one.    *)
C26_JoinedIffRuleHolds ==
    probe_verdict # <<>> =>
        ParagraphCount(probe_verdict[1]) = Cardinality(ParagraphOpeners)


----------------------------------------------------------------------------
(* The split-point search on its own: _find_split_point applied to a text  *)
(* of letters with a few delimiters near the edges of the search window.   *)

SplitTargets == {2, 205}

(* What is written into the text: the delimiters, a question mark and a    *)
(* period that no space or newline follows, and the letter 'a'.            *)
Marks == {Delimiters[k] : k \in 1..Len(Delimiters)} \cup {<<QM>>, <<DOT>>, <<97>>}

(* The 0-based positions at which a mark is written, for a target.         *)
MarkPositions(target) ==
    { p \in { 0, target - SplitLookBack - 1, target - SplitLookBack,
              target - 100, target - 1, target + SplitLookAhead - 2,
              target + SplitLookAhead - 1, target + SplitLookAhead + 5 } :
        p >= 0 }

(* The lengths of the texts: one ends inside the window, one after it.     *)
TextLengths(target) == {target + 50, target + SplitLookAhead + 15}

(* The text of n letters 'a' with the marks written at their positions.    *)
MarkedText(n, placed) ==
    [i \in 1..n |->
        IF \E m \in placed : i - 1 \in m.at..(m.at + Len(m.mark) - 1)
          THEN LET m == CHOOSE m \in placed : i - 1 \in m.at..(m.at + Len(m.mark) - 1)
               IN  m.mark[i - m.at]
          ELSE 97]

(* One mark or two marks that fit into n characters side by side.          *)
Placements(target, n) ==
    LET fitting == {m \in [at : MarkPositions(target), mark : Marks] :
                       m.at + Len(m.mark) <= n}
    IN  { {m1, m2} : m1 \in fitting,
                     m2 \in fitting } \cap
        { placed \in SUBSET fitting :
            \A m1, m2 \in placed :
                m1 # m2 => \/ m1.at + Len(m1.mark) <= m2.at
                           \/ m2.at + Len(m2.mark) <= m1.at }

SplitProbes ==
    UNION { UNION { { [text |-> MarkedText(n, placed), target |-> target] :
                        placed \in Placements(target, n) } :
                    n \in TextLengths(target) } :
            target \in SplitTargets }

SplitInit ==
    /\ probe_text \in SplitProbes
    /\ probe_verdict = <<>>
    /\ ChunkIdle
    /\ TableIdle
    /\ ParseIdle
    /\ ImageIdle
    /\ ConcIdle
    /\ BotIdle

(* split_point = self._find_split_point(current_text, self.chunk_size)     *)
FindSplitPoint ==
    /\ probe_verdict = <<>>
    /\ probe_verdict' = <<find_split_point(probe_text.text, probe_text.target)>>
    /\ UNCHANGED probe_text
    /\ UNCHANGED chunkVars
    /\ UNCHANGED tableVars
    /\ UNCHANGED parseVars
    /\ UNCHANGED imageVars
    /\ UNCHANGED concVars
    /\ UNCHANGED botVars

SplitNext == FindSplitPoint

SpecSplit == SplitInit /\ [][SplitNext]_vars

(* The window of the search, as 0-based positions lo..hi-1.                *)
WindowLo == Max(0, probe_text.target - SplitLookBack)
WindowHi == Min(Len(probe_text.text), probe_text.target + SplitLookAhead)

(* The 0-based positions of the occurrences of a delimiter that lie        *)
(* inside the window.                                                      *)
OccurrencesInWindow(d) ==
    { p \in WindowLo..(WindowHi - Len(d)) :
        SubSeq(probe_text.text, p + 1, p + Len(d)) = d }

PresentInWindow == {k \in 1..Len(Delimiters) : OccurrencesInWindow(Delimiters[k]) # {}}

(* C27: for a text longer than the target the result is the position just  *)
(* after the rightmost occurrence inside the window of the first delimiter *)
(* of the priority list ("\n\n", ".\n", ". ", "? ", "! ", ", ", " ") that  *)
(* occurs inside the window, and the target itself when none does; it      *)
(* lies in 1..target + 100.                                                *)
C27_SplitAfterRightmostBestDelimiter ==
    (probe_verdict # <<>> /\ Len(probe_text.text) > probe_text.target) =>
        /\ probe_verdict[1] =
              IF PresentInWindow = {} THEN probe_text.target
              ELSE LET d == Delimiters[SetMin(PresentInWindow)]
                   IN  SetMax(OccurrencesInWindow(d)) + Len(d)
        /\ probe_verdict[1] \in 1..(probe_text.target + SplitLookAhead)

(* A split after a delimiter inside the window although a delimiter of     *)
(* higher priority stands before the window.                               *)
C27_Witness ==
    /\ probe_verdict # <<>>
    /\ WindowLo > 0
    /\ PresentInWindow # {}
    /\ probe_verdict[1] > probe_text.target
    /\ \E k \in 1..(SetMin(PresentInWindow) - 1) :
          RFind(SubSeq(probe_text.text, 1, WindowLo), Delimiters[k]) # -1


----------------------------------------------------------------------------
(* Properties of the order of OCR and heading detection.                   *)

(* The pages whose text _apply_ocr has replaced.                           *)
OcrProcessed == {i \in 1..Len(pages_content) : "ocr_applied" \in DOMAIN pages_content[i]}

(* C28: on the scanned-document branch the text of a page is rewritten by  *)
(* OCR before headings are detected on it, so the headings recorded for a  *)
(* page whose text OCR replaced are the ones detected in its OCR text.     *)
C28_HeadingsFromOcrText ==
    \A i \in OcrProcessed :
        pages_content[i].headers = detect_headers_smart(<<>>, doc[i].ocr.text)


----------------------------------------------------------------------------
(* Properties of the size of the chunks.                                   *)

(* The final remainder became the last chunk.                              *)
RemainderEmitted == cpc = "done" /\ spans # <<>> /\ spans[Len(spans)].emitted

(* C29: a chunk a split emits has at most chunk_size + 100 characters, the *)
(* remainder emitted after the last page has fewer than chunk_size, and    *)
(* no chunk is empty or made of whitespace only.                           *)
C29_ChunksBoundedAndNotBlank ==
    /\ \A k \in 1..Len(chunks) :
          /\ Len(chunks[k].content) <= chunk_size + SplitLookAhead
          /\ Strip(chunks[k].content) # <<>>
    /\ RemainderEmitted => Len(chunks[Len(chunks)].content) < chunk_size

(* The chunker finished with a chunk longer than chunk_size, cut at a      *)
(* delimiter after the target, and with the remainder as the last chunk.   *)
C29_Witness ==
    /\ RemainderEmitted
    /\ Len(chunks) >= 2
    /\ \E k \in 1..(Len(chunks) - 1) : Len(chunks[k].content) > chunk_size + 50


----------------------------------------------------------------------------
(* The Telegram bot (src/bot.py): the sessions of the users and the        *)
(* handlers that read and write them.  The Application is built without    *)
(* concurrent updates, so a handler runs to its end (or to an exception)   *)
(* before the next update is handled.  Of a session the fields state,      *)
(* pdf_path, parsed_doc and mode are kept; no handler reads the others     *)
(* (processing_profile, custom_title, selected_doc_id, tags,               *)
(* doc_list_page) to decide what to do with these.                         *)

Users == {1, 2}
FileNames == {"a.pdf", "b.pdf"}

(* None, for the optional fields of a session; a path and a parsed        *)
(* document are tuples that are not empty.                                 *)
None == <<>>

(* UserSession(pdf_path=..., state=...): the other fields at their         *)
(* defaults.                                                               *)
UserSession(pdf_path, state) ==
    [pdf_path |-> pdf_path, parsed_doc |-> None, mode |-> "MD_ONLY",
     state |-> state]

(* Path(config.TEMP_DIR) / f"{user_id}_{document.file_name}"               *)
TempPath(user_id, file_name) == << user_id, file_name >>

(* What parse_pdf_to_markdown returns for a path.                          *)
Parsed(pdf_path) == << "ParsedDocument", pdf_path >>

(* user_sessions: dict[int, UserSession] = {}: a function from the users   *)
(* that have a session.                                                    *)
BotInit ==
    /\ user_sessions = <<>>
    /\ last_update = 0
    /\ last_call = <<>>
    /\ ChunkIdle
    /\ TableIdle
    /\ ParseIdle
    /\ ImageIdle
    /\ ProbeIdle
    /\ ConcIdle

(* user_sessions[user_id] = session                                       *)
Put(sessions, user_id, session) ==
    [u \in DOMAIN sessions \cup {user_id} |->
        IF u = user_id THEN session ELSE sessions[u]]

(* session = user_sessions.get(user_id); if session: session.state = ...   *)
WithState(sessions, user_id, state) ==
    IF user_id \notin DOMAIN sessions THEN sessions
    ELSE [sessions EXCEPT ![user_id].state = state]

(* list_command: a new session when Supabase is configured and returns     *)
(* documents.                                                              *)
ListCommand ==
    \E user_id \in Users, outcome \in {"docs", "no_docs", "unconfigured", "raises"} :
       /\ user_sessions' =
             IF outcome = "docs"
               THEN Put(user_sessions, user_id,
                        UserSession(None, "awaiting_doc_selection"))
               ELSE user_sessions
       /\ last_update' = user_id
       /\ last_call' = <<>>
       /\ UNCHANGED << chunkVars, tableVars, parseVars, imageVars, probeVars,
                       concVars >>

(* handle_document: a new session once a PDF of allowed size is downloaded. *)
HandleDocument ==
    \E user_id \in Users, file_name \in FileNames,
       outcome \in {"downloaded", "not_pdf", "too_big", "raises"} :
       /\ user_sessions' =
             IF outcome = "downloaded"
               THEN Put(user_sessions, user_id,
                        UserSession(TempPath(user_id, file_name),
                                    "awaiting_profile"))
               ELSE user_sessions
       /\ last_update' = user_id
       /\ last_call' = <<>>
       /\ UNCHANGED << chunkVars, tableVars, parseVars, imageVars, probeVars,
                       concVars >>

(* handle_callback, data "cancel" and data "confirm_no".                   *)
CancelCallback ==
    \E user_id \in Users :
       /\ user_sessions' = WithState(user_sessions, user_id, "idle")
       /\ last_update' = user_id
       /\ last_call' = <<>>
       /\ UNCHANGED << chunkVars, tableVars, parseVars, imageVars, probeVars,
                       concVars >>

(* handle_callback, data "skip_name".                                      *)
SkipNameCallback ==
    \E user_id \in Users :
       /\ user_sessions' =
             IF user_id \in DOMAIN user_sessions
                  /\ user_sessions[user_id].state = "awaiting_name"
               THEN WithState(user_sessions, user_id, "awaiting_mode")
               ELSE user_sessions
       /\ last_update' = user_id
       /\ last_call' = <<>>
       /\ UNCHANGED << chunkVars, tableVars, parseVars, imageVars,
                       probeVars, concVars >>

(* process_pdf_with_profile: the session when it ends.  The first message  *)
(* is sent outside the try block; inside it the parse or the message with  *)
(* the statistics may raise, and the handler of the exception sets "idle". *)
process_pdf_with_profile(session, outcome) ==
    CASE outcome = "message_raises" -> session
      [] outcome = "parse_raises" -> [session EXCEPT !.state = "idle"]
      [] outcome = "stats_raises" ->
            [session EXCEPT !.parsed_doc = Parsed(session.pdf_path),
                            !.state = "idle"]
      [] OTHER ->
            [session EXCEPT !.parsed_doc = Parsed(session.pdf_path),
                            !.state = "awaiting_name"]

(* handle_callback, data "profile_...".                                    *)
ProfileCallback ==
    \E user_id \in Users,
       outcome \in {"message_raises", "parse_raises", "stats_raises", "parsed"} :
       /\ user_sessions' =
             IF user_id \notin DOMAIN user_sessions
                  \/ user_sessions[user_id].pdf_path = None
               THEN user_sessions
               ELSE [user_sessions EXCEPT ![user_id] =
                        process_pdf_with_profile(
                            [@ EXCEPT !.state = "processing"], outcome)]
       /\ last_update' = user_id
       /\ last_call' = <<>>
       /\ UNCHANGED << chunkVars, tableVars, parseVars, imageVars,
                       probeVars, concVars >>

(* Mutant of mode_accepted: the state of the session is not looked at.     *)
mode_accepted_in_any_state(sessions, user_id) == user_id \in DOMAIN sessions

(* handle_callback, data "mode_...": not (not session or session.state !=  *)
(* "awaiting_mode")                                                        *)
mode_accepted(sessions, user_id) ==
    user_id \in DOMAIN sessions /\ sessions[user_id].state = "awaiting_mode"

(* finalize_output: the session when it ends.  Writing or sending a file   *)
(* may raise before the state is set.                                      *)
finalize_output(session, outcome) ==
    IF outcome = "raises" \/ session.parsed_doc = None THEN session
    ELSE IF session.mode = "SUPABASE_API"
      THEN [session EXCEPT !.state = "awaiting_confirm_upload"]
      ELSE [session EXCEPT !.state = "idle"]

(* handle_callback, data "mode_md", "mode_sql" or "mode_api".              *)
ModeCallback ==
    \E user_id \in Users, mode \in {"MD_ONLY", "SUPABASE_SQL", "SUPABASE_API"},
       outcome \in {"raises", "sent"} :
       /\ IF mode_accepted(user_sessions, user_id)
            THEN /\ user_sessions' =
                       [user_sessions EXCEPT ![user_id] =
                           finalize_output([@ EXCEPT !.mode = mode],
                                           outcome)]
                 /\ last_call' =
                       << [fn |-> "finalize_output",
                           parsed_doc |-> user_sessions[user_id].parsed_doc,
                           pdf_path |-> user_sessions[user_id].pdf_path] >>
            ELSE /\ UNCHANGED user_sessions
                 /\ last_call' = <<>>
       /\ last_update' = user_id
       /\ UNCHANGED << chunkVars, tableVars, parseVars, imageVars,
                       probeVars, concVars >>

(* handle_document_management_callback: the state a button sets, if any.   *)
DocumentButtonState(data) ==
    CASE data = "doc_select" -> "awaiting_doc_action"
      [] data = "doc_rename" -> "awaiting_rename"
      [] data = "doc_tags" -> "awaiting_tags"
      [] data = "doc_delete" -> "awaiting_delete_confirm"
      [] OTHER -> "unchanged"

(* handle_callback, data "doc_...": selecting and deleting ask Supabase    *)
(* for the document first, which may fail.                                 *)
DocumentCallback ==
    \E user_id \in Users,
       data \in {"doc_select", "doc_back_to_list", "doc_page", "doc_rename",
                 "doc_tags", "doc_export", "doc_delete"},
       outcome \in {"found", "fails"} :
       /\ user_sessions' =
             IF DocumentButtonState(data) = "unchanged"
                  \/ (data \in {"doc_select", "doc_delete"} /\ outcome = "fails")
               THEN user_sessions
               ELSE WithState(user_sessions, user_id, DocumentButtonState(data))
       /\ last_update' = user_id
       /\ last_call' = <<>>
       /\ UNCHANGED << chunkVars, tableVars, parseVars, imageVars, probeVars,
                       concVars >>

(* handle_delete_callback: "delete_confirm_..." and "delete_cancel".       *)
DeleteCallback ==
    \E user_id \in Users, outcome \in {"answered", "raises"} :
       /\ user_sessions' =
             IF outcome = "raises" THEN user_sessions
             ELSE WithState(user_sessions, user_id, "idle")
       /\ last_update' = user_id
       /\ last_call' = <<>>
       /\ UNCHANGED << chunkVars, tableVars, parseVars, imageVars, probeVars,
                       concVars >>

(* upload_to_supabase: the session when it ends.                           *)
upload_to_supabase(session, outcome) ==
    IF session.parsed_doc = None \/ outcome = "raises" THEN session
    ELSE [session EXCEPT !.state = "idle"]

(* handle_callback, data "confirm_yes".                                    *)
ConfirmYesCallback ==
    \E user_id \in Users, outcome \in {"uploaded", "raises"} :
       /\ IF user_id \in DOMAIN user_sessions
               /\ user_sessions[user_id].state = "awaiting_confirm_upload"
            THEN /\ user_sessions' =
                       [user_sessions EXCEPT ![user_id] =
                           upload_to_supabase(@, outcome)]
                 /\ last_call' =
                       << [fn |-> "upload_to_supabase",
                           parsed_doc |-> user_sessions[user_id].parsed_doc,
                           pdf_path |-> user_sessions[user_id].pdf_path] >>
            ELSE /\ UNCHANGED user_sessions
                 /\ last_call' = <<>>
       /\ last_update' = user_id
       /\ UNCHANGED << chunkVars, tableVars, parseVars, imageVars,
                       probeVars, concVars >>

(* handle_text_input: a name, tags or a new title; update_document_tags    *)
(* and rename_document leave the state alone when Supabase raises.         *)
HandleTextInput ==
    \E user_id \in Users, outcome \in {"answered", "raises"} :
       /\ user_sessions' =
             IF user_id \notin DOMAIN user_sessions THEN user_sessions
             ELSE IF user_sessions[user_id].state = "awaiting_name"
               THEN WithState(user_sessions, user_id, "awaiting_mode")
             ELSE IF user_sessions[user_id].state
                        \in {"awaiting_tags", "awaiting_rename"}
                     /\ outcome = "answered"
               THEN WithState(user_sessions, user_id, "idle")
             ELSE user_sessions
       /\ last_update' = user_id
       /\ last_call' = <<>>
       /\ UNCHANGED << chunkVars, tableVars, parseVars, imageVars,
                       probeVars, concVars >>

BotNext ==
    \/ ListCommand
    \/ HandleDocument
    \/ CancelCallback
    \/ SkipNameCallback
    \/ ProfileCallback
    \/ ModeCallback
    \/ DocumentCallback
    \/ DeleteCallback
    \/ ConfirmYesCallback
    \/ HandleTextInput

SpecBot == BotInit /\ [][BotNext]_vars

(* The states in which the bot holds a parsed document for the user.       *)
StatesWithDocument == {"awaiting_name", "awaiting_mode", "awaiting_confirm_upload"}

(* C30: whatever a user sends, a session in state awaiting_name,           *)
(* awaiting_mode or awaiting_confirm_upload has its parsed_doc and its     *)
(* pdf_path set; finalize_output and upload_to_supabase are never run on   *)
(* a session without a parsed document; and the handler of an update of    *)
(* one user leaves the session of every other user as it was.              *)
C30_SessionHoldsDocument ==
    /\ [](\A u \in DOMAIN user_sessions :
             user_sessions[u].state \in StatesWithDocument =>
                /\ user_sessions[u].parsed_doc # None
                /\ user_sessions[u].pdf_path # None)
    /\ [](last_call # <<>> =>
             /\ last_call[1].parsed_doc # None
             /\ last_call[1].pdf_path # None)
    /\ [][\A u \in Users :
             u # last_update' =>
                /\ u \in DOMAIN user_sessions' <=> u \in DOMAIN user_sessions
                /\ u \in DOMAIN user_sessions =>
                      user_sessions'[u] = user_sessions[u]]_vars

(* upload_to_supabase ran for one user, on the document parsed from the    *)
(* file of the session, while the other user waits with a parsed document  *)
(* of their own.                                                           *)
C30_Witness ==
    /\ last_call # <<>>
    /\ last_call[1].fn = "upload_to_supabase"
    /\ last_call[1].parsed_doc = Parsed(last_call[1].pdf_path)
    /\ user_sessions[last_update].state = "idle"
    /\ \E u \in DOMAIN user_sessions :
          /\ u # last_update
          /\ user_sessions[u].state = "awaiting_mode"

====
